---------------------------- MODULE Spec2Model ----------------------------
(***************************************************************************)
(* LemLib hardware: lemlib::MotorGroup (record list, polling protocol,    *)
(* reconfiguration protocol, public operations) over lemlib::Motor and    *)
(* the PROS C motor API.                                                   *)
(*                                                                         *)
(* Angles are exact rationals <<num, den>> in units of 1/3600^2 rotation,  *)
(* so that the geared position of a motor is ticks * outputVelocity[rpm].  *)
(* Positive infinity (the error value of the angle functions) is <<1, 0>>. *)
(***************************************************************************)
EXTENDS Integers, Sequences, FiniteSets, TLC

\* ------------------------------------------------------------------ bounds
\* at most MaxAdds calls of addMotor that reach configureMotor
MaxAdds == 1
\* the shaft of a motor is followed this many ticks either way
MaxTicks == 3

\* --------------------------------------------------------------- constants
INT_MAX == 2147483647
EEXIST == 17
\* group output velocity in rpm (tests construct groups with 200_rpm)
OutputVelocity == 200

\* the smart ports that carry a motor, and the ports handed to addMotor and
\* removeMotor (a negative port is a reversed motor)
Ports == {1, 2, 3}
PortInputs == {1, 3, -3}
BrakeModes == {"COAST", "BRAKE", "HOLD"}
INVALID == "INVALID"
\* which family of PROS calls currently fails on a plugged-in motor
\* ("pos": reading the raw position; "brakeSet": setting the brake mode;
\* "brake": reading and setting the brake mode; "cmd": move and brake commands)
Faults == {"none", "pos", "brakeSet", "brake", "cmd"}

\* ------------------------------------------------------- rational numbers
Abs(n) == IF n < 0 THEN -n ELSE n

RECURSIVE Gcd(_, _)
Gcd(a, b) == IF b = 0 THEN a ELSE Gcd(b, a % b)

Inf == <<1, 0>>
Zero == <<0, 1>>
IsInf(x) == x[2] = 0
RNorm(n, d) == LET g == Gcd(Abs(n), Abs(d))
               IN  IF d < 0 THEN <<(-n) \div g, (-d) \div g>> ELSE <<n \div g, d \div g>>
RInt(n) == <<n, 1>>
RAdd(x, y) == IF IsInf(x) \/ IsInf(y) THEN Inf ELSE RNorm(x[1] * y[2] + y[1] * x[2], x[2] * y[2])
RSub(x, y) == IF IsInf(x) THEN Inf ELSE RNorm(x[1] * y[2] - y[1] * x[2], x[2] * y[2])
\* Angle / int; a zero divisor gives an infinity or NaN as in IEEE 754
NaN == <<0, 0>>
RDivInt(x, n) ==
    IF IsInf(x) THEN x
    ELSE IF n = 0 THEN (IF x[1] = 0 THEN NaN ELSE IF x[1] > 0 THEN Inf ELSE <<-1, 0>>)
    ELSE RNorm(x[1], x[2] * n)

VARIABLES
    m_motors,      \* MotorGroup::m_motors: sequence of MotorInfo records
    m_brakeMode,   \* MotorGroup::m_brakeMode
    errno,         \* errno as written by the group
    connected,     \* device: a motor is plugged into the port
    ticks,         \* device: raw encoder position of the motor on the port
    encoder,       \* device: encoder units and zero position (and, where it is
                   \* followed, the gearing) configured on the port
    devBrakeMode,         \* device: brake mode configured on the motor
    fault,         \* device: family of PROS calls failing on the port during the call
    adds,          \* number of addMotor calls that configured a motor
    op,            \* the operation that has just returned, or "idle"
    arg,           \* argument of the last operation
    ret,           \* int result of the last operation
    retAngle,      \* Angle result of the last operation
    retMode,       \* BrakeMode result of the last operation
    live,          \* Motor handles returned by the last operation's poll
    configured,    \* ports configureMotor was run for in the last operation
    touched,       \* absolute ports the last operation made a handle for
    cmds           \* per-motor command results of the last operation

vars == <<m_motors, m_brakeMode, errno, connected, ticks, encoder, devBrakeMode, fault, adds,
          op, arg, ret, retAngle, retMode, live, configured, touched, cmds>>
devVars == <<connected, ticks, encoder, devBrakeMode, fault>>
obsVars == <<op, arg, ret, retAngle, retMode, live, configured, touched, cmds>>

\* ------------------------------------------------- PROS C API (per port)
\* every call on a port without a plugged-in motor fails; on a plugged-in
\* motor the calls of the faulty family fail
Works(port, family, f) ==
    /\ connected[Abs(port)]
    /\ f[Abs(port)] # family
    /\ ~(f[Abs(port)] = "brake" /\ family \in {"brakeGet", "brakeSet"})

\* ----------------------------------------------------------- lemlib::Motor
convertStatus(status) == IF status = 1 THEN 0 ELSE INT_MAX

\* a Motor handle: the port and the offset held by the object
Handle(port, offset) == [port |-> port, offset |-> offset]

Motor_isConnected(port) == connected[Abs(port)]

\* motor_get_raw_position: the sign of the port reverses the reading
RawPosition(port, f) ==
    IF ~Works(port, "pos", f) THEN INT_MAX
    ELSE IF port < 0 THEN -ticks[Abs(port)] ELSE ticks[Abs(port)]

\* raw * (m_outputVelocity / 3600_rpm), in units of 1/3600^2 rotation
Position(rawTicks) == RInt(rawTicks * OutputVelocity)

\* motor_get_position: the position counted from the configured zero
\* position, in the configured encoder units (900 counts per rotation)
DevicePosition(port, f) ==
    LET t == RawPosition(port, f)
        e == encoder[Abs(port)]
    IN  IF t = INT_MAX THEN INT_MAX
        ELSE IF e.units = "counts" THEN t - e.zero
        ELSE IF e.units = "degrees" THEN ((t - e.zero) * 360) \div 900
        ELSE (t - e.zero) \div 900

\* a getAngle that reads the position through motor_get_position
Motor_getAngleOfPosition(m, f) ==
    LET t == DevicePosition(m.port, f)
    IN  IF t = INT_MAX THEN Inf ELSE RAdd(Position(t), m.offset)

Motor_getAngle(m, f) ==
    LET t == RawPosition(m.port, f)
    IN  IF t = INT_MAX THEN Inf ELSE RAdd(Position(t), m.offset)

\* the offset Motor::setAngle stores in the handle; Inf stands for the
\* INT_MAX return (the handle's offset is then left alone)
\* a setAngle that stores the angle itself as the offset
Motor_setAngleAsOffset(m, angle, f) ==
    LET t == RawPosition(m.port, f)
    IN  IF t = INT_MAX THEN [result |-> INT_MAX, offset |-> m.offset]
        ELSE [result |-> 0, offset |-> angle]

Motor_setAngle(m, angle, f) ==
    LET t == RawPosition(m.port, f)
    IN  IF t = INT_MAX THEN [result |-> INT_MAX, offset |-> m.offset]
        ELSE [result |-> 0, offset |-> RSub(angle, Position(t))]

Motor_getBrakeMode(port, brk, f) ==
    IF Works(port, "brakeGet", f) THEN brk[Abs(port)] ELSE INVALID

Motor_setBrakeMode(port, f) ==
    convertStatus(IF Works(port, "brakeSet", f) THEN 1 ELSE INT_MAX)

\* move, moveVelocity and brake forward to one PROS command
Motor_command(port, f) ==
    convertStatus(IF Works(port, "cmd", f) THEN 1 ELSE INT_MAX)

\* --------------------------------------------- MotorGroup::configureMotor
\* a brake-mode step that fails when no record yields a valid mode
RECURSIVE BrakeStepNeedsMode(_, _, _, _)
BrakeStepNeedsMode(i, recs, brk, f) ==
    IF i > Len(recs) THEN FALSE
    ELSE IF Motor_getBrakeMode(recs[i].port, brk, f) = INVALID
         THEN BrakeStepNeedsMode(i + 1, recs, brk, f)
    ELSE Motor_setBrakeMode(recs[i].port, f) = 0

\* brake-mode step: the first record whose motor reports a valid mode gets
\* that mode set again; success is cleared when that set fails
RECURSIVE BrakeStep(_, _, _, _)
BrakeStep(i, recs, brk, f) ==
    IF i > Len(recs) THEN TRUE
    ELSE IF Motor_getBrakeMode(recs[i].port, brk, f) = INVALID THEN BrakeStep(i + 1, recs, brk, f)
    ELSE Motor_setBrakeMode(recs[i].port, f) = 0

\* a selection that does not leave out the motor being configured
RECURSIVE OthersWithSelf(_, _, _)
OthersWithSelf(i, recs, port) ==
    IF i > Len(recs) THEN << >>
    ELSE IF ~Motor_isConnected(recs[i].port)
         THEN OthersWithSelf(i + 1, recs, port)
         ELSE <<Handle(recs[i].port, recs[i].offset)>> \o OthersWithSelf(i + 1, recs, port)

\* handles of the connected records other than the one being configured
RECURSIVE Others(_, _, _)
Others(i, recs, port) ==
    IF i > Len(recs) THEN << >>
    ELSE IF Abs(recs[i].port) = Abs(port) \/ ~Motor_isConnected(recs[i].port)
         THEN Others(i + 1, recs, port)
         ELSE <<Handle(recs[i].port, recs[i].offset)>> \o Others(i + 1, recs, port)

\* sum and error count of the angles of a sequence of handles
RECURSIVE AngleSum(_, _, _, _, _)
AngleSum(i, motors, sum, errors, f) ==
    IF i > Len(motors) THEN [sum |-> sum, errors |-> errors]
    ELSE LET result == Motor_getAngle(motors[i], f)
         IN  IF result = Inf THEN AngleSum(i + 1, motors, sum, errors + 1, f)
             ELSE AngleSum(i + 1, motors, RAdd(sum, result), errors, f)

ReferenceAngle(recs, port, f) ==
    LET motors == Others(1, recs, port)
        acc == AngleSum(1, motors, Zero, 0, f)
    IN  IF Len(motors) # acc.errors THEN RDivInt(acc.sum, Len(motors) - acc.errors)
        ELSE Zero

configureMotor(port, recs, brk, f) ==
    LET success == BrakeStep(1, recs, brk, f)
        set == Motor_setAngle(Handle(port, Zero), ReferenceAngle(recs, port, f), f)
    IN  IF set.result = INT_MAX THEN Inf
        ELSE IF success THEN set.offset
        ELSE Inf

\* ports a call of configureMotor makes handles for
ConfigureTouches(port, recs) == {Abs(port)} \cup {Abs(recs[i].port) : i \in 1..Len(recs)}

\* -------------------------------------------------- MotorGroup::getMotors
\* a loop body that keeps a motor whose set-brake-mode command failed
PollBodyKeepsFailedSet(i, bm, st, f) ==
    LET rec == st.recs[i]
        motor == Handle(rec.port, rec.offset)
        seen == [st EXCEPT !.touched = @ \cup {Abs(rec.port)}]
    IN
    IF ~Motor_isConnected(rec.port)
    THEN [seen EXCEPT !.recs[i].connectedLastCycle = FALSE]
    ELSE
      LET reconf == ~rec.connectedLastCycle
          conf == IF reconf
                  THEN [seen EXCEPT !.configured = Append(@, rec.port),
                                    !.touched = @ \cup ConfigureTouches(rec.port, st.recs)]
                  ELSE seen
      IN
      IF reconf /\ IsInf(configureMotor(rec.port, st.recs, st.brk, f))
      THEN conf
      ELSE
        LET mode == Motor_getBrakeMode(rec.port, conf.brk, f)
            add(s) == [s EXCEPT !.recs[i].connectedLastCycle = TRUE,
                                !.live = Append(@, motor)]
        IN
        IF mode # bm
        THEN IF Motor_setBrakeMode(rec.port, f) # 0
             THEN add(conf)
             ELSE add([conf EXCEPT !.brk[Abs(rec.port)] = bm])
        ELSE IF mode = INVALID
             THEN conf
             ELSE add(conf)

\* a loop body that does not note that a motor was found disconnected
PollBodyKeepsFlag(i, bm, st, f) ==
    LET rec == st.recs[i]
        motor == Handle(rec.port, rec.offset)
        seen == [st EXCEPT !.touched = @ \cup {Abs(rec.port)}]
    IN
    IF ~Motor_isConnected(rec.port)
    THEN seen
    ELSE
      LET reconf == ~rec.connectedLastCycle
          conf == IF reconf
                  THEN [seen EXCEPT !.configured = Append(@, rec.port),
                                    !.touched = @ \cup ConfigureTouches(rec.port, st.recs)]
                  ELSE seen
      IN
      IF reconf /\ IsInf(configureMotor(rec.port, st.recs, st.brk, f))
      THEN conf
      ELSE
        LET mode == Motor_getBrakeMode(rec.port, conf.brk, f)
            add(s) == [s EXCEPT !.recs[i].connectedLastCycle = TRUE,
                                !.live = Append(@, motor)]
        IN
        IF mode # bm
        THEN IF Motor_setBrakeMode(rec.port, f) # 0
             THEN conf
             ELSE add([conf EXCEPT !.brk[Abs(rec.port)] = bm])
        ELSE IF mode = INVALID
             THEN conf
             ELSE add(conf)

\* a loop body that marks a motor connected although its reconfiguration failed
PollBodyGivesUp(i, bm, st, f) ==
    LET rec == st.recs[i]
        motor == Handle(rec.port, rec.offset)
        seen == [st EXCEPT !.touched = @ \cup {Abs(rec.port)}]
    IN
    IF ~Motor_isConnected(rec.port)
    THEN [seen EXCEPT !.recs[i].connectedLastCycle = FALSE]
    ELSE
      LET reconf == ~rec.connectedLastCycle
          conf == IF reconf
                  THEN [seen EXCEPT !.configured = Append(@, rec.port),
                                    !.touched = @ \cup ConfigureTouches(rec.port, st.recs)]
                  ELSE seen
      IN
      IF reconf /\ IsInf(configureMotor(rec.port, st.recs, st.brk, f))
      THEN [conf EXCEPT !.recs[i].connectedLastCycle = TRUE]
      ELSE
        LET mode == Motor_getBrakeMode(rec.port, conf.brk, f)
            add(s) == [s EXCEPT !.recs[i].connectedLastCycle = TRUE,
                                !.live = Append(@, motor)]
        IN
        IF mode # bm
        THEN IF Motor_setBrakeMode(rec.port, f) # 0
             THEN conf
             ELSE add([conf EXCEPT !.brk[Abs(rec.port)] = bm])
        ELSE IF mode = INVALID
             THEN conf
             ELSE add(conf)

\* a loop body whose reconfiguration polls the group once more: the nested
\* poll reconfigures every record that is flagged and plugged in, the record
\* under reconfiguration among them
PollBodyNestedPoll(i, bm, st, f) ==
    LET rec == st.recs[i]
        motor == Handle(rec.port, rec.offset)
        seen == [st EXCEPT !.touched = @ \cup {Abs(rec.port)}]
        flagged == SelectSeq(st.recs, LAMBDA r : ~r.connectedLastCycle
                                                 /\ Motor_isConnected(r.port))
        nested == [k \in 1..Len(flagged) |-> flagged[k].port]
    IN
    IF ~Motor_isConnected(rec.port)
    THEN [seen EXCEPT !.recs[i].connectedLastCycle = FALSE]
    ELSE
      LET reconf == ~rec.connectedLastCycle
          conf == IF reconf
                  THEN [seen EXCEPT !.configured = Append(@, rec.port) \o nested,
                                    !.touched = @ \cup ConfigureTouches(rec.port, st.recs)]
                  ELSE seen
      IN
      IF reconf /\ IsInf(configureMotor(rec.port, st.recs, st.brk, f))
      THEN conf
      ELSE
        LET mode == Motor_getBrakeMode(rec.port, conf.brk, f)
            add(s) == [s EXCEPT !.recs[i].connectedLastCycle = TRUE,
                                !.live = Append(@, motor)]
        IN
        IF mode # bm
        THEN IF Motor_setBrakeMode(rec.port, f) # 0
             THEN conf
             ELSE add([conf EXCEPT !.brk[Abs(rec.port)] = bm])
        ELSE IF mode = INVALID
             THEN conf
             ELSE add(conf)

\* one iteration of the loop of getMotors, on the record at index i; st
\* carries the records, the device brake modes and the poll's outputs
PollBody(i, bm, st, f) ==
    LET rec == st.recs[i]
        motor == Handle(rec.port, rec.offset)
        seen == [st EXCEPT !.touched = @ \cup {Abs(rec.port)}]
    IN
    IF ~Motor_isConnected(rec.port)
    THEN [seen EXCEPT !.recs[i].connectedLastCycle = FALSE]
    ELSE
      LET reconf == ~rec.connectedLastCycle
          conf == IF reconf
                  THEN [seen EXCEPT !.configured = Append(@, rec.port),
                                    !.touched = @ \cup ConfigureTouches(rec.port, st.recs)]
                  ELSE seen
      IN
      IF reconf /\ IsInf(configureMotor(rec.port, st.recs, st.brk, f))
      THEN conf
      ELSE
        LET mode == Motor_getBrakeMode(rec.port, conf.brk, f)
            add(s) == [s EXCEPT !.recs[i].connectedLastCycle = TRUE,
                                !.live = Append(@, motor)]
        IN
        IF mode # bm
        THEN IF Motor_setBrakeMode(rec.port, f) # 0
             THEN conf
             ELSE add([conf EXCEPT !.brk[Abs(rec.port)] = bm])
        ELSE IF mode = INVALID
             THEN conf
             ELSE add(conf)

\* for (int i = 0; i < m_motors.size(); i++)
RECURSIVE PollFrom(_, _, _, _)
PollFrom(i, bm, st, f) ==
    IF i > Len(st.recs) THEN st
    ELSE PollFrom(i + 1, bm, PollBody(i, bm, st, f), f)

\* a poll that drops the records of the motors it finds unplugged
getMotorsDropsUnplugged(recs, bm, brk, f) ==
    LET st == PollFrom(1, bm, [recs |-> recs, brk |-> brk, live |-> << >>,
                               configured |-> << >>, touched |-> {}], f)
    IN  [st EXCEPT !.recs = SelectSeq(st.recs, LAMBDA r : Motor_isConnected(r.port))]

getMotors(recs, bm, brk, f) ==
    PollFrom(1, bm, [recs |-> recs, brk |-> brk, live |-> << >>,
                     configured |-> << >>, touched |-> {}], f)


\* ------------------------------------------------------------- Init
MotorInfo(port, connectedLastCycle, offset) ==
    [port |-> port, connectedLastCycle |-> connectedLastCycle, offset |-> offset]

\* a constructor that leaves the records to be configured by the first poll
ConstructUnconfigured(ports) ==
    [i \in 1..Len(ports) |-> MotorInfo(ports[i], FALSE, Zero)]

\* MotorGroup::MotorGroup: one record per listed port
RECURSIVE Construct(_)
Construct(ports) ==
    IF ports = << >> THEN << >>
    ELSE <<MotorInfo(Head(ports), TRUE, Zero)>> \o Construct(Tail(ports))

\* port lists handed to the constructor
PortLists == {<< >>, <<1, 2>>, <<1, 2, -3>>}

NoFault == [p \in Ports |-> "none"]
\* during one call at most one motor has a failing family of PROS calls
FaultAssignments ==
    {NoFault} \cup {[NoFault EXCEPT ![p] = k] : p \in Ports, k \in Faults \ {"none"}}

Init ==
    /\ m_motors \in {Construct(l) : l \in PortLists}
    /\ m_brakeMode = "COAST"
    /\ errno = 0
    /\ connected = [p \in Ports |-> TRUE]
    /\ ticks = [p \in Ports |-> p - 1]
    /\ encoder = [p \in Ports |-> [units |-> "counts", zero |-> 0]]
    /\ devBrakeMode = [p \in Ports |-> "COAST"]
    /\ fault = NoFault
    /\ adds = 0
    /\ op = "idle" /\ arg = 0 /\ ret = 0 /\ retAngle = Zero /\ retMode = INVALID
    /\ live = << >> /\ configured = << >> /\ touched = {} /\ cmds = << >>

\* ------------------------------------------------------ environment
\* between two calls of the program: a motor is unplugged or plugged in again
\* (the shaft stands still: the raw positions are those of Init)
Disconnect(p) ==
    /\ op = "idle"
    /\ connected[p]
    /\ connected' = [connected EXCEPT ![p] = FALSE]
    /\ UNCHANGED <<m_motors, m_brakeMode, errno, adds, ticks, encoder, devBrakeMode, fault, obsVars>>

Reconnect(p) ==
    /\ op = "idle"
    /\ ~connected[p]
    /\ connected' = [connected EXCEPT ![p] = TRUE]
    /\ UNCHANGED <<m_motors, m_brakeMode, errno, adds, ticks, encoder, devBrakeMode, fault, obsVars>>

\* the caller has taken the result of the last operation
Return ==
    /\ op # "idle"
    /\ op' = "idle" /\ arg' = 0 /\ ret' = 0 /\ retAngle' = Zero /\ retMode' = INVALID
    /\ live' = << >> /\ configured' = << >> /\ touched' = {} /\ cmds' = << >>
    /\ fault' = NoFault
    /\ UNCHANGED <<m_motors, m_brakeMode, errno, adds, connected, ticks, encoder, devBrakeMode>>

\* --------------------------------------------- MotorGroup operations
\* a command loop that stops at the first motor whose command fails
RECURSIVE CommandLoopUntilFailure(_, _, _)
CommandLoopUntilFailure(i, motors, f) ==
    IF i > Len(motors) THEN << >>
    ELSE IF Motor_command(motors[i].port, f) # 0
         THEN <<[port |-> motors[i].port, result |-> INT_MAX]>>
         ELSE <<[port |-> motors[i].port, result |-> 0]>>
              \o CommandLoopUntilFailure(i + 1, motors, f)

\* the per-motor command loop of move / moveVelocity / brake
RECURSIVE CommandLoop(_, _, _)
CommandLoop(i, motors, f) ==
    IF i > Len(motors) THEN << >>
    ELSE <<[port |-> motors[i].port, result |-> Motor_command(motors[i].port, f)]>>
         \o CommandLoop(i + 1, motors, f)

\* a loop whose flag follows the last motor only
RECURSIVE LastSuccess(_, _, _)
LastSuccess(i, results, success) ==
    IF i > Len(results) THEN success
    ELSE LastSuccess(i + 1, results, results[i].result = 0)

\* bool success = false; ... if (result == 0) success = true;
RECURSIVE AnySuccess(_, _, _)
AnySuccess(i, results, success) ==
    IF i > Len(results) THEN success
    ELSE AnySuccess(i + 1, results, IF results[i].result = 0 THEN TRUE ELSE success)

\* what a poll leaves behind in the group, the devices and the observation
Polled(poll, f) ==
    /\ m_motors' = poll.recs
    /\ devBrakeMode' = poll.brk
    /\ live' = poll.live
    /\ configured' = poll.configured
    /\ touched' = poll.touched
    /\ fault' = f
    /\ UNCHANGED <<connected, ticks, encoder, adds>>

Command(name) ==
    /\ op = "idle"
    /\ \E f \in FaultAssignments :
        LET poll == getMotors(m_motors, m_brakeMode, devBrakeMode, f)
            results == CommandLoop(1, poll.live, f)
        IN  /\ Polled(poll, f)
            /\ op' = name /\ arg' = 0
            /\ cmds' = results
            /\ ret' = IF AnySuccess(1, results, FALSE) THEN 0 ELSE INT_MAX
            /\ retAngle' = Zero /\ retMode' = INVALID
            /\ UNCHANGED <<m_brakeMode, errno>>

move == Command("move")
brake == Command("brake")

\* velocities are in tenths of an rpm; n / d rounded to the nearest integer
RoundDiv(n, d) ==
    IF n >= 0 THEN (2 * n + d) \div (2 * d) ELSE -((2 * (-n) + d) \div (2 * d))

\* Motor::moveVelocity: the velocity is rounded to whole rpm and handed to
\* motor_move_velocity as it is
Motor_moveVelocity(port, velocity, f) ==
    [result |-> Motor_command(port, f), value |-> RoundDiv(velocity, 10)]

RECURSIVE VelocityLoop(_, _, _, _)
VelocityLoop(i, motors, velocity, f) ==
    IF i > Len(motors) THEN << >>
    ELSE LET result == Motor_moveVelocity(motors[i].port, velocity, f)
         IN  <<[port |-> motors[i].port, result |-> result.result, value |-> result.value]>>
             \o VelocityLoop(i + 1, motors, velocity, f)

\* velocities asked of the group, in tenths of an rpm
VelocityInputs == {1004, -996}

moveVelocity(velocity) ==
    /\ op = "idle"
    /\ \E f \in FaultAssignments :
        LET poll == getMotors(m_motors, m_brakeMode, devBrakeMode, f)
            results == VelocityLoop(1, poll.live, velocity, f)
        IN  /\ Polled(poll, f)
            /\ op' = "moveVelocity" /\ arg' = velocity
            /\ cmds' = results
            /\ ret' = IF AnySuccess(1, results, FALSE) THEN 0 ELSE INT_MAX
            /\ retAngle' = Zero /\ retMode' = INVALID
            /\ UNCHANGED <<m_brakeMode, errno>>

\* angles handed to setAngle
AngleInputs == {Zero}
\* brake modes handed to setBrakeMode
ModeInputs == {"COAST", "HOLD"}

\* setAngle's loop: each iteration works on a copy of the handle, so the
\* offset Motor::setAngle computes lives in that copy only
RECURSIVE SetAngleLoop(_, _, _, _)
SetAngleLoop(i, motors, angle, f) ==
    IF i > Len(motors) THEN << >>
    ELSE LET set == Motor_setAngle(motors[i], angle, f)
         IN  <<[port |-> motors[i].port, result |-> set.result, offset |-> set.offset]>>
             \o SetAngleLoop(i + 1, motors, angle, f)

setAngle(angle) ==
    /\ op = "idle"
    /\ \E f \in FaultAssignments :
        LET poll == getMotors(m_motors, m_brakeMode, devBrakeMode, f)
            results == SetAngleLoop(1, poll.live, angle, f)
        IN  /\ Polled(poll, f)
            /\ op' = "setAngle" /\ arg' = angle
            /\ cmds' = results
            /\ ret' = IF AnySuccess(1, results, FALSE) THEN 0 ELSE INT_MAX
            /\ retAngle' = Zero /\ retMode' = INVALID
            /\ UNCHANGED <<m_brakeMode, errno>>

\* the count getSize returns for the handles of a poll
RECURSIVE CountConnected(_, _)
CountConnected(i, motors) ==
    IF i > Len(motors) THEN 0
    ELSE (IF Motor_isConnected(motors[i].port) THEN 1 ELSE 0) + CountConnected(i + 1, motors)

\* a getAngle that forgets to take the failed readings out of the divisor
getAngleKeepsErrors(recs, bm, brk, f) ==
    LET poll == getMotors(recs, bm, brk, f)
        acc == AngleSum(1, poll.live, Zero, 0, f)
    IN  IF acc.errors = Len(poll.live)
        THEN [poll |-> poll, last |-> poll, angle |-> Inf]
        ELSE LET again == getMotors(poll.recs, bm, poll.brk, f)
             IN  [poll |-> poll, last |-> again,
                  angle |-> RDivInt(acc.sum, CountConnected(1, again.live))]

\* a getAngle that divides by the number of records of the group
getAngleAllRecords(recs, bm, brk, f) ==
    LET poll == getMotors(recs, bm, brk, f)
        acc == AngleSum(1, poll.live, Zero, 0, f)
    IN  IF acc.errors = Len(poll.live)
        THEN [poll |-> poll, last |-> poll, angle |-> Inf]
        ELSE LET again == getMotors(poll.recs, bm, poll.brk, f)
             IN  [poll |-> poll, last |-> again,
                  angle |-> RDivInt(acc.sum, Len(recs) - acc.errors)]

\* a getAngle that gives up as soon as one reading failed
getAngleAnyError(recs, bm, brk, f) ==
    LET poll == getMotors(recs, bm, brk, f)
        acc == AngleSum(1, poll.live, Zero, 0, f)
    IN  IF acc.errors > 0 \/ Len(poll.live) = 0
        THEN [poll |-> poll, last |-> poll, angle |-> Inf]
        ELSE LET again == getMotors(poll.recs, bm, poll.brk, f)
                 size == CountConnected(1, again.live)
             IN  [poll |-> poll, last |-> again, angle |-> RDivInt(acc.sum, size)]

\* getAngle polls, sums, and divides by the size a second poll (inside
\* getSize) reports
getAngleResult(recs, bm, brk, f) ==
    LET poll == getMotors(recs, bm, brk, f)
        acc == AngleSum(1, poll.live, Zero, 0, f)
    IN  IF acc.errors = Len(poll.live)
        THEN [poll |-> poll, last |-> poll, angle |-> Inf]
        ELSE LET again == getMotors(poll.recs, bm, poll.brk, f)
                 size == CountConnected(1, again.live)
             IN  [poll |-> poll, last |-> again, angle |-> RDivInt(acc.sum, size - acc.errors)]

getAngle ==
    /\ op = "idle"
    /\ \E f \in FaultAssignments :
        \E r \in {getAngleResult(m_motors, m_brakeMode, devBrakeMode, f)} :
          /\ m_motors' = r.last.recs
          /\ devBrakeMode' = r.last.brk
          /\ live' = r.poll.live
          /\ configured' = IF r.last = r.poll THEN r.poll.configured
                           ELSE r.poll.configured \o r.last.configured
          /\ touched' = r.poll.touched \cup r.last.touched
          /\ fault' = f
          /\ op' = "getAngle" /\ arg' = 0 /\ ret' = 0 /\ retMode' = INVALID
          /\ retAngle' = r.angle
          /\ cmds' = << >>
          /\ UNCHANGED <<connected, ticks, encoder, adds, m_brakeMode, errno>>

getSize ==
    /\ op = "idle"
    /\ \E f \in FaultAssignments :
        LET poll == getMotors(m_motors, m_brakeMode, devBrakeMode, f)
        IN  /\ Polled(poll, f)
            /\ op' = "getSize" /\ arg' = 0
            /\ ret' = CountConnected(1, poll.live)
            /\ retAngle' = Zero /\ retMode' = INVALID /\ cmds' = << >>
            /\ UNCHANGED <<m_brakeMode, errno>>

isConnected ==
    /\ op = "idle"
    /\ \E f \in FaultAssignments :
        LET poll == getMotors(m_motors, m_brakeMode, devBrakeMode, f)
        IN  /\ Polled(poll, f)
            /\ op' = "isConnected" /\ arg' = 0
            /\ ret' = IF \E i \in 1..Len(poll.live) : Motor_isConnected(poll.live[i].port)
                      THEN 1 ELSE 0
            /\ retAngle' = Zero /\ retMode' = INVALID /\ cmds' = << >>
            /\ UNCHANGED <<m_brakeMode, errno>>

setBrakeMode(mode) ==
    /\ op = "idle"
    /\ \E f \in FaultAssignments :
        LET poll == getMotors(m_motors, mode, devBrakeMode, f)
        IN  /\ m_brakeMode' = mode
            /\ Polled(poll, f)
            /\ op' = "setBrakeMode" /\ arg' = mode /\ ret' = 0
            /\ retAngle' = Zero /\ retMode' = INVALID /\ cmds' = << >>
            /\ UNCHANGED errno

\* a getBrakeMode that reads the mode back from the first motor of the group
getBrakeModeReadBack ==
    /\ op = "idle"
    /\ \E f \in FaultAssignments :
        LET poll == getMotors(m_motors, m_brakeMode, devBrakeMode, f)
        IN  /\ Polled(poll, f)
            /\ op' = "getBrakeMode" /\ arg' = 0 /\ ret' = 0
            /\ retAngle' = Zero /\ cmds' = << >>
            /\ retMode' = IF m_motors = << >> THEN INVALID
                          ELSE poll.brk[Abs(m_motors[1].port)]
            /\ UNCHANGED <<m_brakeMode, errno>>

getBrakeMode ==
    /\ op = "idle"
    /\ \E f \in FaultAssignments :
        LET poll == getMotors(m_motors, m_brakeMode, devBrakeMode, f)
        IN  /\ Polled(poll, f)
            /\ op' = "getBrakeMode" /\ arg' = 0 /\ ret' = 0
            /\ retAngle' = Zero /\ retMode' = m_brakeMode /\ cmds' = << >>
            /\ UNCHANGED <<m_brakeMode, errno>>

\* a duplicate scan that compares the signed ports
RECURSIVE HasSignedPort(_, _, _)
HasSignedPort(i, recs, port) ==
    IF i > Len(recs) THEN FALSE
    ELSE IF recs[i].port = port THEN TRUE
    ELSE HasSignedPort(i + 1, recs, port)

\* the duplicate scan at the head of addMotor
RECURSIVE HasPort(_, _, _)
HasPort(i, recs, port) ==
    IF i > Len(recs) THEN FALSE
    ELSE IF Abs(recs[i].port) = Abs(port) THEN TRUE
    ELSE HasPort(i + 1, recs, port)

\* the record addMotor pushes for the offset configureMotor returned
AddedInfo(port, offset) == MotorInfo(port, offset = Inf, offset)

\* an addMotor that keeps only the motors it could configure
PushConfigured(recs, port, offset) ==
    IF offset = Inf THEN recs ELSE Append(recs, AddedInfo(port, offset))

\* m_motors.push_back(info)
PushInfo(recs, port, offset) == Append(recs, AddedInfo(port, offset))

\* if (offset == from_stRot(INFINITY)) return INT_MAX; return 0;
addMotorResult(offset) == IF offset = Inf THEN INT_MAX ELSE 0

addMotor(port) ==
    /\ op = "idle"
    /\ op' = "addMotor" /\ arg' = port
    /\ retAngle' = Zero /\ retMode' = INVALID /\ cmds' = << >> /\ live' = << >>
    /\ UNCHANGED <<m_brakeMode, connected, ticks, encoder, devBrakeMode>>
    /\ IF HasPort(1, m_motors, port)
       THEN /\ errno' = EEXIST
            /\ ret' = INT_MAX
            /\ configured' = << >> /\ touched' = {}
            /\ fault' = NoFault
            /\ UNCHANGED <<m_motors, adds>>
       ELSE \E f \in FaultAssignments :
              LET offset == configureMotor(port, m_motors, devBrakeMode, f)
              IN  /\ adds < MaxAdds
                  /\ adds' = adds + 1
                  /\ m_motors' = PushInfo(m_motors, port, offset)
                  /\ ret' = addMotorResult(offset)
                  /\ configured' = <<port>>
                  /\ touched' = ConfigureTouches(port, m_motors)
                  /\ fault' = f
                  /\ UNCHANGED errno

\* an erase loop that compares the signed ports
RECURSIVE EraseSigned(_, _, _)
EraseSigned(it, recs, port) ==
    IF it > Len(recs) THEN recs
    ELSE IF recs[it].port = port
         THEN EraseSigned(it, SubSeq(recs, 1, it - 1) \o SubSeq(recs, it + 1, Len(recs)), port)
         ELSE EraseSigned(it + 1, recs, port)

\* an erase loop that erases from the iterator to the end of the list
RECURSIVE EraseToEnd(_, _, _)
EraseToEnd(it, recs, port) ==
    IF it > Len(recs) THEN recs
    ELSE IF Abs(recs[it].port) = Abs(port) THEN SubSeq(recs, 1, it - 1)
    ELSE EraseToEnd(it + 1, recs, port)

\* removeMotor's loop: erase the record under the iterator, or advance.
\* The loop goes on with the iterator it handed to erase; std::vector::erase
\* moves the tail down in place without reallocating, so that iterator
\* designates the record that followed the erased one (or end()).
RECURSIVE EraseLoop(_, _, _)
EraseLoop(it, recs, port) ==
    IF it > Len(recs) THEN recs
    ELSE IF Abs(recs[it].port) = Abs(port)
         THEN EraseLoop(it, SubSeq(recs, 1, it - 1) \o SubSeq(recs, it + 1, Len(recs)), port)
         ELSE EraseLoop(it + 1, recs, port)

removeMotor(port) ==
    /\ op = "idle"
    /\ m_motors' = EraseLoop(1, m_motors, port)
    /\ op' = "removeMotor" /\ arg' = port /\ ret' = 0
    /\ retAngle' = Zero /\ retMode' = INVALID /\ cmds' = << >> /\ live' = << >>
    /\ configured' = << >> /\ touched' = {}
    /\ UNCHANGED <<m_brakeMode, errno, adds, devVars>>

\* ------------------------------------------------------ specification
Next ==
    \/ \E p \in Ports : Disconnect(p)
    \/ \E p \in Ports : Reconnect(p)
    \/ Return
    \/ move
    \/ \E v \in VelocityInputs : moveVelocity(v)
    \/ brake
    \/ \E a \in AngleInputs : setAngle(a)
    \/ getAngle
    \/ getSize
    \/ \E port \in PortInputs : addMotor(port)
    \/ \E port \in PortInputs : removeMotor(port)

Spec == Init /\ [][Next]_vars

\* ------------------------------------------- a single lemlib::Motor
\* The program of test/Motor/Motor/angle.cpp: one lemlib::Motor object, kept
\* in live as its only handle, while the PROS side of the program changes
\* the encoder units and the zero position of the same port.
MotorPorts == {1, 2, -3}
EncoderUnits == {"counts", "degrees", "rotations"}
ZeroInputs == {0, 1}
MotorAngleInputs == {Zero, RInt(360)}

InitMotor ==
    /\ m_motors = << >>
    /\ m_brakeMode = "COAST"
    /\ errno = 0
    /\ connected = [p \in Ports |-> TRUE]
    /\ ticks = [p \in Ports |-> p - 1]
    /\ encoder = [p \in Ports |-> [units |-> "counts", zero |-> 0]]
    /\ devBrakeMode = [p \in Ports |-> "COAST"]
    /\ fault = NoFault
    /\ adds = 0
    /\ op = "idle" /\ arg = 0 /\ ret = 0 /\ retAngle = Zero /\ retMode = INVALID
    /\ live \in {<<Handle(port, Zero)>> : port \in MotorPorts}
    /\ configured = << >> /\ touched = {} /\ cmds = << >>

\* prosMotor.set_encoder_units(units)
SetEncoderUnits(units) ==
    /\ encoder' = [encoder EXCEPT ![Abs(live[1].port)].units = units]
    /\ UNCHANGED <<m_motors, m_brakeMode, errno, adds, connected, ticks, devBrakeMode, fault, obsVars>>

\* prosMotor.set_zero_position(position)
SetZeroPosition(position) ==
    /\ encoder' = [encoder EXCEPT ![Abs(live[1].port)].zero = position]
    /\ UNCHANGED <<m_motors, m_brakeMode, errno, adds, connected, ticks, devBrakeMode, fault, obsVars>>

\* motor.getAngle()
MotorGetAngle ==
    \E f \in FaultAssignments :
        /\ retAngle' = Motor_getAngle(live[1], f)
        /\ fault' = f
        /\ op' = "Motor::getAngle" /\ arg' = 0 /\ ret' = 0
        /\ UNCHANGED <<m_motors, m_brakeMode, errno, adds, connected, ticks, encoder,
                       devBrakeMode, retMode, live, configured, touched, cmds>>

\* motor.setAngle(angle): the offset is stored in the Motor object; cmds
\* keeps the angle and the raw position read by the last call that succeeded
MotorSetAngle(angle) ==
    \E f \in FaultAssignments :
        LET set == Motor_setAngle(live[1], angle, f)
        IN  /\ live' = <<Handle(live[1].port, set.offset)>>
            /\ ret' = set.result
            /\ fault' = f
            /\ op' = "Motor::setAngle" /\ arg' = angle /\ retAngle' = Zero
            /\ cmds' = IF set.result = 0
                       THEN <<[port |-> live[1].port, angle |-> angle,
                               ticks |-> RawPosition(live[1].port, f)]>>
                       ELSE cmds
            /\ UNCHANGED <<m_motors, m_brakeMode, errno, adds, connected, ticks, encoder,
                           devBrakeMode, retMode, configured, touched>>

\* the shaft of the motor turns by one tick while no call is under way: the
\* result of the last call is no longer held
TurnShaft(d) ==
    /\ Abs(ticks[Abs(live[1].port)] + d) <= MaxTicks
    /\ ticks' = [ticks EXCEPT ![Abs(live[1].port)] = @ + d]
    /\ op' = "idle" /\ arg' = 0 /\ ret' = 0 /\ retAngle' = Zero
    /\ UNCHANGED <<m_motors, m_brakeMode, errno, adds, connected, encoder, devBrakeMode,
                   fault, retMode, live, configured, touched, cmds>>

NextMotor ==
    \/ \E units \in EncoderUnits : SetEncoderUnits(units)
    \/ \E position \in ZeroInputs : SetZeroPosition(position)
    \/ MotorGetAngle
    \/ \E angle \in MotorAngleInputs : MotorSetAngle(angle)
    \/ \E d \in {-1, 1} : TurnShaft(d)

SpecMotor == InitMotor /\ [][NextMotor]_vars

\* ------------------------------------------- brake modes of the group
\* The program of test/Motor/MotorGroup/brake.cpp: groups are constructed,
\* their brake mode is set and read, motors are added, and the motors found
\* on the ports may have been left in any brake mode by an earlier program.
ConstructLists == PortLists \cup {<<2, -2>>}
\* the modes the motors are found in: all coasting, or only the first one
DeviceModes == {[p \in Ports |-> "COAST"],
                [p \in Ports |-> IF p = 1 THEN "COAST" ELSE "HOLD"]}

\* MotorGroup::MotorGroup: the records are pushed, no motor is addressed
MotorGroup(ports) ==
    /\ op = "idle"
    /\ m_motors' = Construct(ports)
    /\ m_brakeMode' = "COAST"
    /\ op' = "MotorGroup" /\ arg' = ports /\ ret' = 0
    /\ retAngle' = Zero /\ retMode' = INVALID
    /\ live' = << >> /\ configured' = << >> /\ touched' = {} /\ cmds' = << >>
    /\ UNCHANGED <<errno, adds, devVars>>

InitBrake ==
    /\ m_motors \in {Construct(l) : l \in PortLists}
    /\ m_brakeMode = "COAST"
    /\ errno = 0
    /\ connected = [p \in Ports |-> TRUE]
    /\ ticks = [p \in Ports |-> p - 1]
    /\ encoder = [p \in Ports |-> [units |-> "counts", zero |-> 0]]
    /\ devBrakeMode \in DeviceModes
    /\ fault = NoFault
    /\ adds = 0
    /\ op = "idle" /\ arg = 0 /\ ret = 0 /\ retAngle = Zero /\ retMode = INVALID
    /\ live = << >> /\ configured = << >> /\ touched = {} /\ cmds = << >>

NextBrake ==
    \/ \E p \in Ports : Disconnect(p)
    \/ \E p \in Ports : Reconnect(p)
    \/ Return
    \/ \E ports \in ConstructLists : MotorGroup(ports)
    \/ \E mode \in ModeInputs : setBrakeMode(mode)
    \/ getBrakeMode
    \/ isConnected

SpecBrake == InitBrake /\ [][NextBrake]_vars

\* motors are added to a group whose motors are in different brake modes
NextAdd ==
    \/ \E p \in Ports : Disconnect(p)
    \/ \E p \in Ports : Reconnect(p)
    \/ Return
    \/ getSize
    \/ \E port \in PortInputs : addMotor(port)

SpecAdd == InitBrake /\ [][NextAdd]_vars

\* motors are added and polled while every motor stays plugged in
NextJoin ==
    \/ Return
    \/ getSize
    \/ \E port \in PortInputs : addMotor(port)

SpecJoin == Init /\ [][NextJoin]_vars

\* ------------------------------------------- current limit of the group
\* Motor::setCurrentLimit: the limit in amperes times 1000 is handed to
\* motor_set_current_limit, whose parameter is a whole number of mA (the
\* fraction is cut off); the status of PROS is returned as it is
Motor_setCurrentLimit(port, limit, f) ==
    [result |-> IF Works(port, "cmd", f) THEN 1 ELSE INT_MAX,
     value |-> limit[1] \div limit[2]]

\* a loop that goes on to the next motor after a failed command
RECURSIVE CurrentLoopIgnoresFailure(_, _, _, _)
CurrentLoopIgnoresFailure(i, motors, limit, f) ==
    IF i > Len(motors) THEN [cmds |-> << >>, failed |-> FALSE]
    ELSE LET set == Motor_setCurrentLimit(motors[i].port, RDivInt(limit, Len(motors)), f)
             cmd == [port |-> motors[i].port, result |-> set.result, value |-> set.value]
             rest == CurrentLoopIgnoresFailure(i + 1, motors, limit, f)
         IN  [cmds |-> <<cmd>> \o rest.cmds, failed |-> FALSE]

\* for (Motor motor : motors): every motor is commanded limit / motors.size()
\* until a command fails
RECURSIVE CurrentLoop(_, _, _, _)
CurrentLoop(i, motors, limit, f) ==
    IF i > Len(motors) THEN [cmds |-> << >>, failed |-> FALSE]
    ELSE LET set == Motor_setCurrentLimit(motors[i].port, RDivInt(limit, Len(motors)), f)
             cmd == [port |-> motors[i].port, result |-> set.result, value |-> set.value]
         IN  IF set.result = INT_MAX THEN [cmds |-> <<cmd>>, failed |-> TRUE]
             ELSE LET rest == CurrentLoop(i + 1, motors, limit, f)
                  IN  [cmds |-> <<cmd>> \o rest.cmds, failed |-> rest.failed]

\* the commands of an attempt, marked as repeated by a later attempt or not
Attempt(issued, retried) ==
    [k \in 1..Len(issued) |-> [port |-> issued[k].port, result |-> issued[k].result,
                               value |-> issued[k].value, retried |-> retried]]

\* the number of attempts one call is followed through
MaxAttempts == 2

\* the failures in effect during the successive attempts of one call
AttemptFaults == [1..MaxAttempts -> FaultAssignments]

\* setCurrentLimit calls itself again when a command failed; fs[n] is the
\* failure in effect during attempt n.  done is FALSE when the attempts
\* followed are used up and the call is still repeating itself.
RECURSIVE setCurrentLimitResult(_, _, _, _, _, _, _)
setCurrentLimitResult(recs, bm, brk, limit, fs, n, before) ==
    LET poll == getMotors(recs, bm, brk, fs[n])
        loop == CurrentLoop(1, poll.live, RInt(limit), fs[n])
    IN  IF Len(poll.live) = 0
        THEN [done |-> TRUE, poll |-> poll, f |-> fs[n], ret |-> INT_MAX, cmds |-> before]
        ELSE IF ~loop.failed
        THEN [done |-> TRUE, poll |-> poll, f |-> fs[n], ret |-> 0,
              cmds |-> before \o Attempt(loop.cmds, FALSE)]
        ELSE IF n = MaxAttempts
        THEN [done |-> FALSE, poll |-> poll, f |-> fs[n], ret |-> INT_MAX, cmds |-> before]
        ELSE setCurrentLimitResult(poll.recs, bm, poll.brk, limit, fs, n + 1,
                                   before \o Attempt(loop.cmds, TRUE))

\* limits asked of the group, in mA
LimitInputs == {2000, 2500}

setCurrentLimit(limit) ==
    /\ op = "idle"
    /\ \E fs \in AttemptFaults :
        \E r \in {setCurrentLimitResult(m_motors, m_brakeMode, devBrakeMode, limit, fs, 1, << >>)} :
          /\ r.done
          /\ Polled(r.poll, r.f)
          /\ op' = "setCurrentLimit" /\ arg' = limit
          /\ cmds' = r.cmds
          /\ ret' = r.ret
          /\ retAngle' = Zero /\ retMode' = INVALID
          /\ UNCHANGED <<m_brakeMode, errno>>

NextCurrent ==
    \/ \E p \in Ports : Disconnect(p)
    \/ \E p \in Ports : Reconnect(p)
    \/ Return
    \/ \E limit \in LimitInputs : setCurrentLimit(limit)

SpecCurrent == Init /\ [][NextCurrent]_vars

\* ------------------------------------------- two tasks on one group
\* The program of test/Motor/MotorGroup/move.cpp with removeMotor in the main
\* task: the screen task runs the loop of getMotors one step at a time (op
\* is its position, arg the index i counted from 1, live / configured /
\* touched what the loop has collected), the main task erases records in
\* between.  ret counts the records erased since the last loop test.
PollBegin ==
    /\ op = "idle"
    /\ \E f \in FaultAssignments : fault' = f
    /\ op' = "getMotors:test" /\ arg' = 1 /\ ret' = 0
    /\ UNCHANGED <<m_motors, m_brakeMode, errno, adds, connected, ticks, encoder,
                   devBrakeMode, retAngle, retMode, live, configured, touched, cmds>>

\* a loop test that lets the index run one past the last record
PollTestPastEnd ==
    /\ op = "getMotors:test"
    /\ op' = IF arg <= Len(m_motors) + 1 THEN "getMotors:body" ELSE "getMotors"
    /\ ret' = 0
    /\ UNCHANGED <<m_motors, m_brakeMode, errno, adds, devVars, arg, retAngle, retMode,
                   live, configured, touched, cmds>>

\* i < m_motors.size()
PollTest ==
    /\ op = "getMotors:test"
    /\ op' = IF arg <= Len(m_motors) THEN "getMotors:body" ELSE "getMotors"
    /\ ret' = 0
    /\ UNCHANGED <<m_motors, m_brakeMode, errno, adds, devVars, arg, retAngle, retMode,
                   live, configured, touched, cmds>>

\* the body of the loop and i++; m_motors.at(i) throws std::out_of_range
\* when the record list has no position i (any more)
PollStep ==
    /\ op = "getMotors:body"
    /\ IF arg > Len(m_motors)
       THEN /\ op' = "out_of_range"
            /\ UNCHANGED <<m_motors, devBrakeMode, live, configured, touched, arg>>
       ELSE \E st \in {PollBody(arg, m_brakeMode,
                                [recs |-> m_motors, brk |-> devBrakeMode, live |-> live,
                                 configured |-> configured, touched |-> touched], fault)} :
              /\ m_motors' = st.recs
              /\ devBrakeMode' = st.brk
              /\ live' = st.live
              /\ configured' = st.configured
              /\ touched' = st.touched
              /\ arg' = arg + 1
              /\ op' = "getMotors:test"
    /\ UNCHANGED <<m_brakeMode, errno, adds, connected, ticks, encoder, fault,
                   ret, retAngle, retMode, cmds>>

\* removeMotor in the other task, while the loop of getMotors is under way
ConcurrentRemove(port) ==
    /\ op \in {"getMotors:test", "getMotors:body"}
    /\ m_motors' = EraseLoop(1, m_motors, port)
    /\ ret' = ret + Len(m_motors) - Len(m_motors')
    /\ UNCHANGED <<m_brakeMode, errno, adds, devVars, op, arg, retAngle, retMode,
                   live, configured, touched, cmds>>

NextConc ==
    \/ \E p \in Ports : Disconnect(p)
    \/ \E p \in Ports : Reconnect(p)
    \/ PollBegin
    \/ PollTest
    \/ PollStep
    \/ \E port \in PortInputs : ConcurrentRemove(port)
    \/ op \in {"getMotors", "out_of_range"} /\ Return

SpecConc == Init /\ [][NextConc]_vars

\* ------------------------------------------- one poll, step by step
\* The loop of getMotors one step at a time (PollBegin, PollTest, PollStep)
\* while the devices do what they like: fault is chosen when the poll
\* begins, and motors are unplugged and plugged in between the iterations.
PlugDuringPoll(p) ==
    /\ op = "getMotors:test"
    /\ connected' = [connected EXCEPT ![p] = ~@]
    /\ UNCHANGED <<m_motors, m_brakeMode, errno, adds, ticks, encoder, devBrakeMode,
                   fault, obsVars>>

NextPoll ==
    \/ \E p \in Ports : Disconnect(p)
    \/ \E p \in Ports : Reconnect(p)
    \/ PollBegin
    \/ PollTest
    \/ PollStep
    \/ \E p \in Ports : PlugDuringPoll(p)
    \/ op = "getMotors" /\ Return

\* What a step of PollTest or PollStep does to op.
PollProceeds ==
    /\ op \in {"getMotors:test", "getMotors:body"}
    /\ op' \in {"getMotors:test", "getMotors:body", "getMotors", "out_of_range"}

\* The task that polls keeps running.  While a poll is under way PollTest
\* and PollStep are the only actions that change op, and each of their steps
\* does, so weak fairness of the two is weak fairness of the steps that
\* change op as PollProceeds says.
SpecPoll == Init /\ [][NextPoll]_vars /\ WF_op(PollProceeds)

\* setCurrentLimit one attempt at a time, with a failure that lasts: fault is
\* chosen when the call begins and stays in effect through its attempts.
\* While the call is under way ret is the depth of the recursion; the source
\* puts no bound on it, so it is counted round: 1, ..., MaxAttempts, 1, ...
CurrentBegin(limit) ==
    /\ op = "idle"
    /\ \E f \in FaultAssignments : fault' = f
    /\ op' = "setCurrentLimit:attempt" /\ arg' = limit /\ ret' = 0
    /\ UNCHANGED <<m_motors, m_brakeMode, errno, adds, connected, ticks, encoder,
                   devBrakeMode, retAngle, retMode, live, configured, touched, cmds>>

\* one activation of setCurrentLimit: it returns, or calls itself
CurrentAttemptResult(recs, bm, brk, limit, f, depth, before) ==
    LET poll == getMotors(recs, bm, brk, f)
        loop == CurrentLoop(1, poll.live, RInt(limit), f)
    IN  IF Len(poll.live) = 0
        THEN [poll |-> poll, op |-> "setCurrentLimit", ret |-> INT_MAX, cmds |-> before]
        ELSE IF ~loop.failed
        THEN [poll |-> poll, op |-> "setCurrentLimit", ret |-> 0,
              cmds |-> Attempt(loop.cmds, FALSE)]
        ELSE [poll |-> poll, op |-> "setCurrentLimit:attempt",
              ret |-> (depth % MaxAttempts) + 1,
              cmds |-> Attempt(loop.cmds, TRUE)]

CurrentAttempt ==
    /\ op = "setCurrentLimit:attempt"
    /\ \E r \in {CurrentAttemptResult(m_motors, m_brakeMode, devBrakeMode, arg, fault,
                                       ret, cmds)} :
          /\ m_motors' = r.poll.recs
          /\ devBrakeMode' = r.poll.brk
          /\ live' = r.poll.live
          /\ configured' = r.poll.configured
          /\ touched' = r.poll.touched
          /\ op' = r.op
          /\ ret' = r.ret
          /\ cmds' = r.cmds
    /\ UNCHANGED <<m_brakeMode, errno, adds, connected, ticks, encoder, fault, arg,
                   retAngle, retMode>>

NextRetry ==
    \/ \E p \in Ports : Disconnect(p)
    \/ \E p \in Ports : Reconnect(p)
    \/ \E limit \in LimitInputs : CurrentBegin(limit)
    \/ CurrentAttempt
    \/ op = "setCurrentLimit" /\ Return

\* What a step of CurrentAttempt does to op and ret: the call stays under
\* way one activation deeper, or has returned.
CurrentProceeds ==
    /\ op = "setCurrentLimit:attempt"
    /\ op' \in {"setCurrentLimit:attempt", "setCurrentLimit"}
    /\ ret' \in (0..MaxAttempts) \cup {INT_MAX}

\* An activation that can run does run.  While the call is under way
\* CurrentAttempt is the only action that can take a step, and each of its
\* steps changes op or ret, so weak fairness of CurrentAttempt is weak
\* fairness of the steps that change <<op, ret>> as CurrentProceeds says.
SpecRetry == Init /\ [][NextRetry]_vars /\ WF_<<op, ret>>(CurrentProceeds)

\* ------------------------------------------- getAngle while motors are plugged
\* getAngle in two steps: its own poll and the sum, then the poll of the
\* nested getSize and the division; between the two a motor may be unplugged
\* or plugged in.  After the first step retAngle is the sum, arg the number
\* of angles summed and ret the number of failed readings; at the end ret is
\* the divisor.
GetAngleSum ==
    /\ op = "idle"
    /\ \E f \in FaultAssignments :
        \E poll \in {getMotors(m_motors, m_brakeMode, devBrakeMode, f)} :
          LET acc == AngleSum(1, poll.live, Zero, 0, f)
          IN  /\ Polled(poll, f)
              /\ IF acc.errors = Len(poll.live)
                 THEN op' = "getAngle" /\ retAngle' = Inf /\ arg' = 0 /\ ret' = 0
                 ELSE /\ op' = "getAngle:getSize"
                      /\ retAngle' = acc.sum
                      /\ arg' = Len(poll.live) - acc.errors
                      /\ ret' = acc.errors
              /\ UNCHANGED <<m_brakeMode, errno, retMode, cmds>>

PlugDuringCall(p) ==
    /\ op = "getAngle:getSize"
    /\ connected' = [connected EXCEPT ![p] = ~@]
    /\ UNCHANGED <<m_motors, m_brakeMode, errno, adds, ticks, encoder, devBrakeMode, fault,
                   obsVars>>

\* return angle / (getSize() - errors)
GetAngleDivide ==
    /\ op = "getAngle:getSize"
    /\ \E again \in {getMotors(m_motors, m_brakeMode, devBrakeMode, fault)} :
          /\ m_motors' = again.recs
          /\ devBrakeMode' = again.brk
          /\ configured' = configured \o again.configured
          /\ touched' = touched \cup again.touched
          /\ ret' = CountConnected(1, again.live) - ret
          /\ retAngle' = RDivInt(retAngle, CountConnected(1, again.live) - ret)
    /\ op' = "getAngle"
    /\ UNCHANGED <<m_brakeMode, errno, adds, connected, ticks, encoder, fault, arg, retMode,
                   live, cmds>>

NextAngle ==
    \/ \E p \in Ports : Disconnect(p)
    \/ \E p \in Ports : Reconnect(p)
    \/ GetAngleSum
    \/ \E p \in Ports : PlugDuringCall(p)
    \/ GetAngleDivide
    \/ op = "getAngle" /\ Return

SpecAngle == Init /\ [][NextAngle]_vars

\* ------------------------------------------- ReversibleSmartPort
\* conversion of an integer to std::int8_t and to std::uint8_t
Int8(n) == ((n + 128) % 256) - 128
UInt8(n) == n % 256

\* a runtime-checked port that keeps whatever fits the member
UncheckedPort(port) == Int8(port)

\* ReversibleSmartPort(std::int64_t port, DynamicPort): the member takes the
\* converted value, and 0 when the magnitude is not a port number
ReversibleSmartPort(port) ==
    IF Abs(port) < 1 \/ Abs(port) > 21 THEN 0 ELSE Int8(port)

\* operator-
Negated(m_port) == ReversibleSmartPort(-m_port)

is_reversed(m_port) == m_port < 0

set_reversed(m_port, reversed) ==
    LET port == UInt8(IF m_port < 0 THEN -m_port ELSE m_port)
    IN  ReversibleSmartPort(IF reversed THEN -port ELSE port)

\* integers a program may hand to the runtime-checked constructor
PortValues == (-23..23) \cup {127, 128, 251, 261, -128, -129, -251, -261}

\* arg is the integer the next port is made from; once a port exists, ret
\* is its stored value, op the operation that made it and arg its argument
InitPort ==
    /\ m_motors = << >>
    /\ m_brakeMode = "COAST"
    /\ errno = 0
    /\ connected = [p \in Ports |-> TRUE]
    /\ ticks = [p \in Ports |-> p - 1]
    /\ encoder = [p \in Ports |-> [units |-> "counts", zero |-> 0]]
    /\ devBrakeMode = [p \in Ports |-> "COAST"]
    /\ fault = NoFault
    /\ adds = 0
    /\ op = "idle" /\ arg \in PortValues /\ ret = 0 /\ retAngle = Zero /\ retMode = INVALID
    /\ live = << >> /\ configured = << >> /\ touched = {} /\ cmds = << >>

PortConstruct ==
    /\ op = "idle"
    /\ op' = "ReversibleSmartPort" /\ ret' = ReversibleSmartPort(arg)
    /\ UNCHANGED <<m_motors, m_brakeMode, errno, adds, devVars, arg, retAngle, retMode,
                   live, configured, touched, cmds>>

PortNegate ==
    /\ op # "idle"
    /\ op' = "operator-" /\ arg' = ret /\ ret' = Negated(ret)
    /\ UNCHANGED <<m_motors, m_brakeMode, errno, adds, devVars, retAngle, retMode,
                   live, configured, touched, cmds>>

PortSetReversed(reversed) ==
    /\ op # "idle"
    /\ op' = "set_reversed" /\ arg' = <<ret, reversed>> /\ ret' = set_reversed(ret, reversed)
    /\ UNCHANGED <<m_motors, m_brakeMode, errno, adds, devVars, retAngle, retMode,
                   live, configured, touched, cmds>>

NextPort ==
    \/ PortConstruct
    \/ PortNegate
    \/ \E reversed \in BOOLEAN : PortSetReversed(reversed)

SpecPort == InitPort /\ [][NextPort]_vars

\* ------------------------------- addMotor with the iterator scan
\* The revision of MotorGroup whose records are std::pair<int8_t, bool>
\* (port, flag) and whose addMotor scans the records with an iterator.  A
\* pair is written MotorInfo(port, flag, Zero).  The motors carry the green
\* cartridge: 900 counts to the rotation, rated 200 rpm, so the gear ratio
\* to the output velocity is 1.  The first addMotor of a program is
\* followed (adds = 0): the records are those the constructor made.
CountsPerRotation == 900
\* one count in the unit of the angles (1/3600^2 rotation)
CountAngle == (3600 * 3600) \div CountsPerRotation

\* iterations of the scan are counted round: 1, ..., MaxScans, 1, ...
MaxScans == 2

\* getMotors: the connected records in order.  A connected record whose
\* flag is false is handed to configureMotor, which polls again and meets
\* the same record with the same flag: that recursion does not end
\* (overflow).
getMotors_pair(recs) ==
    [overflow |-> \E i \in 1..Len(recs) :
                     Motor_isConnected(recs[i].port) /\ ~recs[i].connectedLastCycle,
     live |-> SelectSeq(recs, LAMBDA r : Motor_isConnected(r.port))]

\* Motor::getAngle by way of getAbsoluteCounts: the position counted from
\* the zero position, 360 * (counts / 900.0) degrees
Motor_getAngle_counts(port, f) ==
    LET counts == IF Motor_isConnected(port) THEN DevicePosition(port, f) ELSE INT_MAX
    IN  IF counts = INT_MAX THEN Inf ELSE RInt(counts * CountAngle)

RECURSIVE AngleSum_pair(_, _, _, _)
AngleSum_pair(i, motors, acc, f) ==
    IF i > Len(motors) THEN acc
    ELSE LET result == Motor_getAngle_counts(motors[i].port, f)
         IN  IF result = Inf THEN AngleSum_pair(i + 1, motors, acc, f)
             ELSE AngleSum_pair(i + 1, motors,
                                [success |-> TRUE, angle |-> RAdd(acc.angle, result)], f)

\* MotorGroup::getAngle: the sum over the motors that report, over getSize()
getAngle_pair(recs, f) ==
    LET motors == getMotors_pair(recs).live
        acc == AngleSum_pair(1, motors, [success |-> FALSE, angle |-> Zero], f)
    IN  IF ~acc.success THEN Inf ELSE RDivInt(acc.angle, Len(motors))

\* the brake-mode loop of configureMotor: the mode of the first live motor
\* that reports one is set on the motor under configuration; Motor::setBrakeMode
\* hands back the PROS status (1, or INT_MAX), which the loop compares with 0
RECURSIVE BrakeStep_pair(_, _, _, _, _)
BrakeStep_pair(i, motors, port, brk, f) ==
    IF i > Len(motors) THEN [success |-> TRUE, brk |-> brk]
    ELSE LET mode == Motor_getBrakeMode(motors[i].port, brk, f)
             status == IF Works(port, "brakeSet", f) THEN 1 ELSE INT_MAX
         IN  IF mode = INVALID THEN BrakeStep_pair(i + 1, motors, port, brk, f)
             ELSE [success |-> status = 0,
                   brk |-> IF status = 1 THEN [brk EXCEPT ![Abs(port)] = mode] ELSE brk]

\* configureMotor: its int result (success as 1, failure as 0), the brake
\* modes of the devices and the zero position of the configured motor, in
\* counts, where Motor::setAngle has set it
configureMotor_pair(port, recs, brk, enc, f) ==
    LET poll == getMotors_pair(recs)
        step == BrakeStep_pair(1, poll.live, port, brk, f)
        cartridgeValid == Motor_isConnected(port)
        angle == getAngle_pair(recs, f)
        raw == RawPosition(port, f)
        result == IF raw = INT_MAX \/ ~cartridgeValid THEN INT_MAX ELSE 0
        success == step.success /\ cartridgeValid /\ angle # Inf
    IN  [overflow |-> poll.overflow,
         result |-> IF result = INT_MAX THEN 0 ELSE IF success THEN 1 ELSE 0,
         brk |-> step.brk,
         enc |-> IF result = INT_MAX THEN enc
                 ELSE [enc EXCEPT ![Abs(port)].zero =
                          RSub(RDivInt(angle, CountAngle), RInt(raw))]]

\* addMotor is called: auto it = m_motors.begin()
ScanBegin(port) ==
    /\ op = "idle" /\ adds = 0
    /\ \E f \in FaultAssignments : fault' = f
    /\ op' = "addMotor:scan" /\ arg' = port /\ ret' = 0
    /\ UNCHANGED <<m_motors, m_brakeMode, errno, adds, connected, ticks, encoder,
                   devBrakeMode, retAngle, retMode, live, configured, touched, cmds>>

\* One turn of while (it < m_motors.end()): the body returns when the record
\* at it has the port, and does not advance it otherwise.  On a non-empty
\* list whose first record has another port the loop makes no progress,
\* which is undefined behaviour: the build iterates again, or takes the
\* loop to end and leaves it by one of its two exits.
ScanTest ==
    /\ op = "addMotor:scan"
    /\ IF Len(m_motors) = 0
       THEN op' = "addMotor:configure" /\ ret' = 0 /\ errno' = errno
       ELSE IF Abs(m_motors[1].port) = Abs(arg)
       THEN op' = "addMotor" /\ ret' = INT_MAX /\ errno' = EEXIST
       ELSE \/ op' = "addMotor:scan" /\ ret' = (ret % MaxScans) + 1 /\ errno' = errno
            \/ op' = "addMotor" /\ ret' = INT_MAX /\ errno' = EEXIST
            \/ op' = "addMotor:configure" /\ ret' = 0 /\ errno' = errno
    /\ UNCHANGED <<m_motors, m_brakeMode, adds, devVars, arg, retAngle, retMode,
                   live, configured, touched, cmds>>

\* configureMotor(port) and m_motors.push_back(pair(port, result == 0))
ScanConfigure ==
    /\ op = "addMotor:configure"
    /\ \E r \in {configureMotor_pair(arg, m_motors, devBrakeMode, encoder, fault)} :
          IF r.overflow
          THEN /\ op' = "stack_overflow"
               /\ UNCHANGED <<m_motors, devBrakeMode, encoder, ret, adds>>
          ELSE /\ op' = "addMotor"
               /\ m_motors' = Append(m_motors, MotorInfo(arg, r.result = 0, Zero))
               /\ devBrakeMode' = r.brk
               /\ encoder' = r.enc
               /\ ret' = r.result
               /\ adds' = adds + 1
    /\ UNCHANGED <<m_brakeMode, errno, connected, ticks, fault, arg, retAngle, retMode,
                   live, configured, touched, cmds>>

NextScan ==
    \/ \E p \in Ports : Disconnect(p)
    \/ \E p \in Ports : Reconnect(p)
    \/ \E port \in PortInputs : ScanBegin(port)
    \/ ScanTest
    \/ ScanConfigure
    \/ op = "addMotor" /\ Return

\* What a step of ScanTest or ScanConfigure does to op and ret.
ScanProceeds ==
    /\ op \in {"addMotor:scan", "addMotor:configure"}
    /\ op' \in {"addMotor:scan", "addMotor:configure", "addMotor", "stack_overflow"}
    /\ ret' \in (0..MaxScans) \cup {INT_MAX}

\* The task that called addMotor keeps running.  While the call is under way
\* ScanTest and ScanConfigure are the only actions that can take a step, and
\* each of their steps changes op or ret, so weak fairness of the two is weak
\* fairness of the steps that change <<op, ret>> as ScanProceeds says.
SpecScan == Init /\ [][NextScan]_vars /\ WF_<<op, ret>>(ScanProceeds)

\* ------------------------------- removeMotor(Motor)
\* void MotorGroup::removeMotor(Motor motor) { removeMotor(motor); }: the
\* argument is a Motor, so the call in the body is a call of this overload.
\* arg is the port of the motor handed in; while the call is under way ret
\* is the depth of the recursion, counted round: 1, ..., MaxDepth, 1, ...
MaxDepth == 2

RemoveMotorBegin(port) ==
    /\ op = "idle"
    /\ op' = "removeMotor(Motor):call" /\ arg' = port /\ ret' = 1
    /\ UNCHANGED <<m_motors, m_brakeMode, errno, adds, devVars, retAngle, retMode,
                   live, configured, touched, cmds>>

\* One activation: it calls itself.  A recursion without end and without
\* effect is undefined behaviour: the build goes one activation deeper,
\* runs out of stack, or takes the recursion to end and returns.
RemoveMotorCall ==
    /\ op = "removeMotor(Motor):call"
    /\ \/ op' = op /\ ret' = (ret % MaxDepth) + 1
       \/ op' = "stack_overflow" /\ ret' = ret
       \/ op' = "removeMotor(Motor)" /\ ret' = 0
    /\ UNCHANGED <<m_motors, m_brakeMode, errno, adds, devVars, arg, retAngle, retMode,
                   live, configured, touched, cmds>>

NextRemove ==
    \/ \E p \in Ports : Disconnect(p)
    \/ \E p \in Ports : Reconnect(p)
    \/ \E port \in PortInputs : removeMotor(port)
    \/ \E port \in PortInputs : RemoveMotorBegin(port)
    \/ RemoveMotorCall
    \/ op \in {"removeMotor", "removeMotor(Motor)"} /\ Return

\* What a step of RemoveMotorCall does to op and ret.
RemoveProceeds ==
    /\ op = "removeMotor(Motor):call"
    /\ op' \in {"removeMotor(Motor):call", "removeMotor(Motor)", "stack_overflow"}
    /\ ret' \in 0..MaxDepth

\* The task that called removeMotor keeps running: RemoveMotorCall is the
\* only action that can take a step while the call is under way, and each
\* of its steps changes op or ret.
SpecRemove == Init /\ [][NextRemove]_vars /\ WF_<<op, ret>>(RemoveProceeds)

\* ------------------------------- move while another task reads cartridges
\* (test/Motor/MotorGroup/move.cpp: the main task calls group.move while the
\* screen task calls group.getAngle.)  In this specification the record of a
\* port in encoder also carries the gearing set on the device.  op, arg, ret,
\* live, configured and touched follow the main task's move, arg holding its
\* locals; cmds and retAngle hold the cartridge reads and the result of the
\* screen task's last getAngle.

\* the cartridges of the motors on the ports, by their rated rpm: the motor
\* on port 3 has the 600 rpm cartridge in a group geared for 200 rpm
Cartridge == [p \in Ports |-> IF p = 3 THEN 600 ELSE 200]

E_MOTOR_GEAR_RED == 100
E_MOTOR_GEAR_GREEN == 200
E_MOTOR_GEAR_BLUE == 600
E_MOTOR_GEARSET_INVALID == INT_MAX

motor_get_gearing(port, enc, f) ==
    IF Works(port, "gearing", f) THEN enc[Abs(port)].gearing ELSE E_MOTOR_GEARSET_INVALID

motor_set_gearing(port, gearset, enc, f) ==
    IF Works(port, "gearing", f)
    THEN [result |-> 1, enc |-> [enc EXCEPT ![Abs(port)].gearing = gearset]]
    ELSE [result |-> INT_MAX, enc |-> enc]

\* Motor::getCartridge: the gearing of the device, read at the time of the
\* call (Cartridge::INVALID is E_MOTOR_GEARSET_INVALID here)
Motor_getCartridge(port, enc, f) ==
    LET cartridge == motor_get_gearing(port, enc, f)
    IN  IF cartridge \in {E_MOTOR_GEAR_BLUE, E_MOTOR_GEAR_GREEN, E_MOTOR_GEAR_RED}
        THEN cartridge ELSE E_MOTOR_GEARSET_INVALID

InitGear ==
    /\ m_motors \in {Construct(l) : l \in PortLists}
    /\ m_brakeMode = "COAST"
    /\ errno = 0
    /\ connected = [p \in Ports |-> TRUE]
    /\ ticks = [p \in Ports |-> p - 1]
    /\ encoder = [p \in Ports |-> [units |-> "counts", zero |-> 0, gearing |-> Cartridge[p]]]
    /\ devBrakeMode = [p \in Ports |-> "COAST"]
    /\ fault = NoFault
    /\ adds = 0
    /\ op = "idle" /\ arg = 0 /\ ret = 0 /\ retAngle = Zero /\ retMode = INVALID
    /\ live = << >> /\ configured = << >> /\ touched = {} /\ cmds = << >>

\* MotorGroup::move: const std::vector<Motor> motors = getMotors(); bool success = false;
MoveBegin ==
    /\ op = "idle"
    /\ \E f \in FaultAssignments :
        LET poll == getMotors(m_motors, m_brakeMode, devBrakeMode, f)
        IN  /\ Polled(poll, f)
            /\ op' = "move:getType"
            /\ arg' = [i |-> 1, oldCart |-> E_MOTOR_GEARSET_INVALID, success |-> FALSE]
            /\ ret' = 0
            /\ UNCHANGED <<m_brakeMode, errno, retAngle, retMode, cmds>>

\* Motor::move -> Motor::getType, up to the check of the two results: the
\* gearing is read and then set to red.  An INVALID type makes Motor::move
\* return INT_MAX, and the loop goes on to the next motor.
TypeProbe ==
    /\ op = "move:getType"
    /\ arg.i <= Len(live)
    /\ LET port == live[arg.i].port
           oldCart == motor_get_gearing(port, encoder, fault)
           set == motor_set_gearing(port, E_MOTOR_GEAR_RED, encoder, fault)
       IN  /\ encoder' = set.enc
           /\ IF oldCart = E_MOTOR_GEARSET_INVALID \/ set.result = INT_MAX
              THEN /\ op' = op
                   /\ arg' = [arg EXCEPT !.i = @ + 1]
              ELSE /\ op' = "move:newCart"
                   /\ arg' = [arg EXCEPT !.oldCart = oldCart]
    /\ UNCHANGED <<m_motors, m_brakeMode, errno, connected, ticks, devBrakeMode, fault, adds,
                   ret, retAngle, retMode, live, configured, touched, cmds>>

\* the rest of Motor::getType (the gearing is read again and, unless green,
\* set back to the value read first), the motor's move command, and
\* if (result == 0) success = true
TypeRestore ==
    /\ op = "move:newCart"
    /\ LET port == live[arg.i].port
           newCart == motor_get_gearing(port, encoder, fault)
           set == motor_set_gearing(port, arg.oldCart, encoder, fault)
           type == IF newCart = E_MOTOR_GEARSET_INVALID THEN INVALID
                   ELSE IF newCart # E_MOTOR_GEAR_GREEN
                        THEN (IF set.result = INT_MAX THEN INVALID ELSE "V5")
                        ELSE "EXP"
           result == IF type = INVALID THEN INT_MAX ELSE Motor_command(port, fault)
       IN  /\ encoder' = IF newCart \notin {E_MOTOR_GEARSET_INVALID, E_MOTOR_GEAR_GREEN}
                         THEN set.enc ELSE encoder
           /\ arg' = [i |-> arg.i + 1, oldCart |-> E_MOTOR_GEARSET_INVALID,
                      success |-> IF result = 0 THEN TRUE ELSE arg.success]
    /\ op' = "move:getType"
    /\ UNCHANGED <<m_motors, m_brakeMode, errno, connected, ticks, devBrakeMode, fault, adds,
                   ret, retAngle, retMode, live, configured, touched, cmds>>

\* return success ? 0 : INT_MAX;
MoveReturn ==
    /\ op = "move:getType"
    /\ arg.i > Len(live)
    /\ op' = "move"
    /\ ret' = IF arg.success THEN 0 ELSE INT_MAX
    /\ UNCHANGED <<m_motors, m_brakeMode, errno, devVars, adds,
                   arg, retAngle, retMode, live, configured, touched, cmds>>

\* a motor is unplugged while move is under way
UnplugDuringMove(p) ==
    /\ op \in {"move:getType", "move:newCart"}
    /\ connected[p]
    /\ connected' = [connected EXCEPT ![p] = FALSE]
    /\ UNCHANGED <<m_motors, m_brakeMode, errno, adds, ticks, encoder, devBrakeMode, fault,
                   obsVars>>

\* the loop of MotorGroup::getAngle that reads the cartridge of every motor
\* whose angle it could read; reads records every cartridge read
RECURSIVE CartridgeAngleSum(_, _, _, _, _)
CartridgeAngleSum(i, motors, acc, enc, f) ==
    IF i > Len(motors) THEN acc
    ELSE LET result == Motor_getAngle(motors[i], f)
             cartridge == Motor_getCartridge(motors[i].port, enc, f)
             read == <<[port |-> motors[i].port, value |-> cartridge]>>
         IN  IF result = Inf
             THEN CartridgeAngleSum(i + 1, motors, [acc EXCEPT !.errors = @ + 1], enc, f)
             ELSE IF cartridge = E_MOTOR_GEARSET_INVALID
             THEN CartridgeAngleSum(i + 1, motors,
                      [acc EXCEPT !.errors = @ + 1, !.reads = @ \o read], enc, f)
             ELSE CartridgeAngleSum(i + 1, motors,
                      [sum |-> RAdd(acc.sum, RNorm(result[1] * OutputVelocity, result[2] * cartridge)),
                       errors |-> acc.errors,
                       reads |-> acc.reads \o read], enc, f)

getAngleOfCartridges(recs, bm, brk, enc, f) ==
    LET poll == getMotors(recs, bm, brk, f)
        acc == CartridgeAngleSum(1, poll.live, [sum |-> Zero, errors |-> 0, reads |-> << >>], enc, f)
    IN  IF acc.errors = Len(poll.live)
        THEN [last |-> poll, reads |-> acc.reads, angle |-> Inf]
        ELSE LET again == getMotors(poll.recs, bm, poll.brk, f)
                 size == CountConnected(1, again.live)
             IN  [last |-> again, reads |-> acc.reads,
                  angle |-> RDivInt(acc.sum, size - acc.errors)]

\* the screen task's group.getAngle(), at any point of the main task's move
ScreenGetAngle ==
    /\ op \in {"idle", "move:getType", "move:newCart"}
    /\ \E r \in {getAngleOfCartridges(m_motors, m_brakeMode, devBrakeMode, encoder, fault)} :
          /\ m_motors' = r.last.recs
          /\ devBrakeMode' = r.last.brk
          /\ cmds' = r.reads
          /\ retAngle' = r.angle
    /\ UNCHANGED <<m_brakeMode, errno, connected, ticks, encoder, fault, adds,
                   op, arg, ret, retMode, live, configured, touched>>

NextGear ==
    \/ \E p \in Ports : Disconnect(p)
    \/ \E p \in Ports : Reconnect(p)
    \/ MoveBegin
    \/ TypeProbe
    \/ TypeRestore
    \/ MoveReturn
    \/ \E p \in Ports : UnplugDuringMove(p)
    \/ ScreenGetAngle
    \/ (op = "move" /\ Return)

SpecGear == InitGear /\ [][NextGear]_vars

\* ------------------------------- V5InertialSensor
\* In this specification the object is a V5InertialSensor on port ImuPort:
\* m_motors holds its fields as a record (m_offset, m_gyroScalar, and m_mutex:
\* "free", or "held" while a lock_guard of the calling task holds it),
\* connected[ImuPort] says whether the sensor is installed, and
\* ticks[ImuPort] is the rotation the device reports, in degrees.  Angles are
\* in degrees here.  op is the position of the calling task.
ImuPort == 3
\* rotations the device reports, rotations handed to setRotation, and
\* scalars handed to setGyroScalar
Headings == 0..3
Rotations == {0, 90, -90}
GyroScalars == {1, 2}

InitImu ==
    /\ m_motors = [m_offset |-> Zero, m_gyroScalar |-> 1, m_mutex |-> "free"]
    /\ m_brakeMode = "COAST"
    /\ errno = 0
    /\ connected = [p \in Ports |-> TRUE]
    /\ ticks = [p \in Ports |-> 0]
    /\ encoder = [p \in Ports |-> [units |-> "counts", zero |-> 0]]
    /\ devBrakeMode = [p \in Ports |-> "COAST"]
    /\ fault = NoFault
    /\ adds = 0
    /\ op = "idle" /\ arg = 0 /\ ret = 0 /\ retAngle = Zero /\ retMode = INVALID
    /\ live = << >> /\ configured = << >> /\ touched = {} /\ cmds = << >>

\* the robot turns between two calls
Turn(h) ==
    /\ op = "idle"
    /\ ticks[ImuPort] # h
    /\ ticks' = [ticks EXCEPT ![ImuPort] = h]
    /\ UNCHANGED <<m_motors, m_brakeMode, errno, adds, connected, encoder, devBrakeMode, fault,
                   obsVars>>

\* compass degrees (clockwise from north) to standard degrees
from_cDeg(value) == RInt(90 - value)

\* the body of getRotation, under the lock
getRotationBody(obj) ==
    IF ~connected[ImuPort] THEN Inf
    ELSE RAdd(from_cDeg(ticks[ImuPort] * obj.m_gyroScalar), obj.m_offset)

\* std::lock_guard lock(m_mutex) on a pros::Mutex: the task goes on once the
\* mutex is free, whoever holds it; the guard gives the mutex back at the
\* end of the function
Lockable(obj) == obj.m_mutex = "free"

imuCalibrate ==
    /\ op = "idle"
    /\ Lockable(m_motors)
    /\ m_motors' = [m_motors EXCEPT !.m_offset = Zero]
    /\ op' = "calibrate" /\ arg' = 0
    /\ ret' = IF connected[ImuPort] THEN 1 ELSE INT_MAX
    /\ UNCHANGED <<m_brakeMode, errno, devVars, adds, retAngle, retMode, live, configured,
                   touched, cmds>>

\* getRotation, called by the program or from within setRotation; in the
\* second case the action goes on with the rest of setRotation
getRotation ==
    /\ op \in {"idle", "setRotation:getRotation"}
    /\ Lockable(m_motors)
    /\ LET raw == getRotationBody(m_motors)
       IN  IF op = "idle"
           THEN /\ op' = "getRotation" /\ arg' = 0 /\ ret' = 0
                /\ retAngle' = raw
                /\ UNCHANGED m_motors
           ELSE /\ op' = "setRotation"
                /\ retAngle' = raw
                /\ IF raw = Inf
                   THEN /\ ret' = INT_MAX
                        /\ m_motors' = [m_motors EXCEPT !.m_mutex = "free"]
                   ELSE /\ ret' = 0
                        /\ m_motors' = [m_motors EXCEPT !.m_offset = RSub(RInt(arg), raw),
                                                        !.m_mutex = "free"]
                /\ UNCHANGED arg
    /\ UNCHANGED <<m_brakeMode, errno, devVars, adds, retMode, live, configured, touched, cmds>>

\* setRotation up to its call of getRotation: the lock_guard takes m_mutex
setRotationLock(rotation) ==
    /\ op = "idle"
    /\ Lockable(m_motors)
    /\ m_motors' = [m_motors EXCEPT !.m_mutex = "held"]
    /\ op' = "setRotation:getRotation" /\ arg' = rotation
    /\ UNCHANGED <<m_brakeMode, errno, devVars, adds, ret, retAngle, retMode, live, configured,
                   touched, cmds>>

setGyroScalar(scalar) ==
    /\ op = "idle"
    /\ Lockable(m_motors)
    /\ m_motors' = [m_motors EXCEPT !.m_gyroScalar = scalar]
    /\ op' = "setGyroScalar" /\ arg' = scalar /\ ret' = 0
    /\ UNCHANGED <<m_brakeMode, errno, devVars, adds, retAngle, retMode, live, configured,
                   touched, cmds>>

getGyroScalar ==
    /\ op = "idle"
    /\ Lockable(m_motors)
    /\ op' = "getGyroScalar" /\ arg' = 0 /\ ret' = m_motors.m_gyroScalar
    /\ UNCHANGED <<m_motors, m_brakeMode, errno, devVars, adds, retAngle, retMode, live,
                   configured, touched, cmds>>

NextImu ==
    \/ Disconnect(ImuPort)
    \/ Reconnect(ImuPort)
    \/ \E h \in Headings : Turn(h)
    \/ imuCalibrate
    \/ getRotation
    \/ \E rotation \in Rotations : setRotationLock(rotation)
    \/ \E scalar \in GyroScalars : setGyroScalar(scalar)
    \/ getGyroScalar
    \/ (op \in {"calibrate", "getRotation", "setRotation", "setGyroScalar", "getGyroScalar"}
        /\ Return)

\* a task that can go on does go on: the call of getRotation inside
\* setRotation is made as soon as the mutex lets it
setRotationProceeds == op = "setRotation:getRotation" /\ getRotation

SpecImu == InitImu /\ [][NextImu]_vars /\ WF_vars(setRotationProceeds)

\* ------------------------------------------------------ properties
\* Between a call and its Return the variables op, arg, ret, retAngle, live,
\* configured, touched and cmds describe the call; fault is the failure that
\* was in effect while it ran.
CommandOps == {"move", "moveVelocity", "brake"}
PollOps == CommandOps \cup {"setAngle", "getAngle", "getSize"}

RecordPorts == {Abs(m_motors[i].port) : i \in 1..Len(m_motors)}
InLive(port) == \E j \in 1..Len(live) : live[j].port = port

RECURSIVE RSum(_, _)
RSum(S, val) ==
    IF S = {} THEN Zero
    ELSE LET x == CHOOSE y \in S : TRUE IN RAdd(val[x], RSum(S \ {x}, val))

\* the mean of the values val[i], i in S; +infinity over no value at all
RMean(S, val) == IF S = {} THEN Inf ELSE RDivInt(RSum(S, val), Cardinality(S))

\* what the motor of record i reports under the failure f
Reported(i, f) == Motor_getAngle(Handle(m_motors[i].port, m_motors[i].offset), f)

\* C1: move, moveVelocity, brake and setAngle return 0 exactly when the
\* per-motor operation succeeded on at least one live motor, and INT_MAX
\* otherwise (in particular when no motor is live).
C1_AnySuccess ==
    op \in CommandOps \cup {"setAngle"} =>
        /\ ret \in {0, INT_MAX}
        /\ ret = 0 <=>
             \E i \in 1..Len(live) :
                IF op = "setAngle" THEN Motor_setAngle(live[i], arg, fault).result = 0
                ELSE Motor_command(live[i].port, fault) = 0

C1_Witness ==
    /\ op = "move" /\ ret = 0
    /\ Len(cmds) >= 2
    /\ \E i \in 1..Len(cmds) : cmds[i].result = INT_MAX

\* C2: getAngle returns the arithmetic mean of (device angle + stored offset)
\* over exactly the live motors whose angle could be read, and +infinity when
\* there is none; a disconnected or failing motor contributes nothing.
C2_Readable == {i \in 1..Len(m_motors) : InLive(m_motors[i].port) /\ ~IsInf(Reported(i, fault))}

C2_MeanOfReadable ==
    op = "getAngle" =>
        retAngle = RMean(C2_Readable,
                         [i \in C2_Readable |->
                             RAdd(Position(RawPosition(m_motors[i].port, fault)),
                                  m_motors[i].offset)])

C2_Witness ==
    /\ op = "getAngle"
    /\ Cardinality(C2_Readable) = 2
    /\ Len(live) = 3
    /\ retAngle # Zero /\ ~IsInf(retAngle)

\* C3: when a poll sees a motor connected that an earlier poll saw
\* disconnected, and its reconfiguration succeeds, the record's offset is
\* replaced so that the motor reports the mean of the other connected motors.
\* (In a group that holds only motors it was constructed with, the records a
\* poll reconfigures are those an earlier poll saw disconnected.)
C3_ReconnectStoresOffset ==
    op \in PollOps /\ fault = NoFault /\ adds = 0 =>
        \A i \in 1..Len(m_motors) :
            (\E k \in 1..Len(configured) : configured[k] = m_motors[i].port)
              /\ InLive(m_motors[i].port)
              /\ Others(1, m_motors, m_motors[i].port) # << >>
            => Reported(i, NoFault) = ReferenceAngle(m_motors, m_motors[i].port, NoFault)

\* C4: a motor whose reconfiguration failed in addMotor is reconfigured again
\* by every later poll that finds it connected, until that succeeds.
C4_FailedAddIsRetried ==
    op \in PollOps =>
        \A i \in 1..Len(m_motors) :
            IsInf(m_motors[i].offset) /\ Motor_isConnected(m_motors[i].port)
            => \E k \in 1..Len(configured) : configured[k] = m_motors[i].port

\* C5: after setAngle(a) has returned 0 with no device call failing, a
\* getAngle on the undisturbed group returns a.
C5_SetAngleThenGetAngle ==
    op = "setAngle" /\ ret = 0 /\ fault = NoFault =>
        getAngleResult(m_motors, m_brakeMode, devBrakeMode, NoFault).angle = arg

\* C6: a getAngle whose poll finds a motor disconnected returns the mean of
\* the remaining motors' (angle + offset) values, and that poll changes no
\* record's port or offset.
C6_Remaining(f) ==
    {i \in 1..Len(m_motors) : Motor_isConnected(m_motors[i].port) /\ ~IsInf(Reported(i, f))}

C6_DisconnectStep ==
    /\ op' = "getAngle"
    /\ fault' = NoFault
    /\ \E i \in 1..Len(m_motors) :
          m_motors[i].connectedLastCycle /\ ~Motor_isConnected(m_motors[i].port)

C6_DisconnectDropsMotor ==
    [][C6_DisconnectStep =>
         /\ retAngle' = RMean(C6_Remaining(NoFault),
                             [i \in C6_Remaining(NoFault) |-> Reported(i, NoFault)])
         /\ Len(m_motors') = Len(m_motors)
         /\ \A i \in 1..Len(m_motors) :
               /\ m_motors'[i].port = m_motors[i].port
               /\ m_motors'[i].offset = m_motors[i].offset
               /\ ~Motor_isConnected(m_motors[i].port) => ~m_motors'[i].connectedLastCycle]_vars

C6_Witness ==
    /\ op = "getAngle" /\ fault = NoFault
    /\ Len(m_motors) = 3
    /\ ~connected[1] /\ connected[2] /\ connected[3]
    /\ Len(live) = 2
    /\ retAngle = RDivInt(RAdd(Position(ticks[2]), Position(-ticks[3])), 2)

\* C7: addMotor for a port whose absolute value is already in the group
\* returns INT_MAX, sets errno to EEXIST, leaves the record list as it was,
\* and neither reconfigures nor commands any device.
C7_DuplicateRejected ==
    [][op' = "addMotor" /\ (\E i \in 1..Len(m_motors) : Abs(m_motors[i].port) = Abs(arg'))
       => /\ ret' = INT_MAX
          /\ errno' = EEXIST
          /\ m_motors' = m_motors
          /\ configured' = << >> /\ touched' = {} /\ cmds' = << >>
          /\ UNCHANGED <<connected, ticks, devBrakeMode>>]_vars

C7_Witness ==
    /\ op = "addMotor" /\ ret = INT_MAX /\ errno = EEXIST
    /\ \E i \in 1..Len(m_motors) : m_motors[i].port = -arg

C9_RemovedIsGone ==
    /\ op = "removeMotor" => Abs(arg) \notin RecordPorts
    /\ op \in PollOps =>
          /\ touched \subseteq RecordPorts
          /\ \A j \in 1..Len(live) : Abs(live[j].port) \in RecordPorts
    /\ op = "getSize" =>
          ret <= Cardinality({p \in RecordPorts : connected[p]})

C9_Witness ==
    /\ op = "getSize"
    /\ connected[1] /\ connected[2]
    /\ 2 \in RecordPorts /\ 1 \notin RecordPorts
    /\ ret = Len(m_motors)

\* C10: removeMotor leaves every record of another port as it was, in the
\* same relative order, and removing a port that is not in the group changes
\* nothing and reports no error.
C10_OthersUntouched ==
    [][op' = "removeMotor"
       => /\ m_motors' = SelectSeq(m_motors, LAMBDA r : Abs(r.port) # Abs(arg'))
          /\ (Abs(arg') \notin RecordPorts => m_motors' = m_motors)
          /\ ret' = 0 /\ errno' = errno
          /\ UNCHANGED <<connected, ticks, devBrakeMode, m_brakeMode>>]_vars

C10_Witness ==
    /\ op = "removeMotor" /\ arg = 1
    /\ Len(m_motors) = 2
    /\ m_motors[1].port = 2 /\ Abs(m_motors[2].port) = 3

\* C20: Motor::getAngle depends only on the raw encoder ticks and the offset
\* stored in the Motor: whatever encoder units and zero position have been
\* configured on the port since the last getAngle, the value it returned is
\* the value getAngle returns now.
C20_UnitsDoNotMatter ==
    op = "Motor::getAngle" /\ m_motors = << >> /\ Len(live) = 1 =>
        /\ retAngle = Motor_getAngle(live[1], fault)
        /\ fault = NoFault =>
              retAngle = RAdd(RInt((IF live[1].port < 0 THEN -1 ELSE 1)
                                      * ticks[Abs(live[1].port)] * OutputVelocity),
                              live[1].offset)

C20_Witness ==
    /\ op = "Motor::getAngle" /\ fault = NoFault
    /\ live[1].port = -3
    /\ encoder[3] = [units |-> "rotations", zero |-> 1]
    /\ live[1].offset # Zero
    /\ retAngle = RInt(360)

BrakePollOps == {"setBrakeMode", "getBrakeMode", "isConnected"}

\* C11: after a poll every motor of the live set is in the canonical brake
\* mode of the group on the device; a connected motor whose set-brake-mode
\* command failed while it was in another mode is not in the live set, and
\* when no call fails every connected motor of the group is in the live set
\* (so it has the canonical mode within that one poll).
C11_LiveHaveCanonicalMode ==
    op \in BrakePollOps =>
        /\ \A j \in 1..Len(live) : devBrakeMode[Abs(live[j].port)] = m_brakeMode
        /\ \A i \in 1..Len(m_motors) :
              LET port == m_motors[i].port
              IN  /\ fault[Abs(port)] \in {"brakeSet", "brake"}
                        /\ devBrakeMode[Abs(port)] # m_brakeMode => ~InLive(port)
                  /\ fault = NoFault /\ connected[Abs(port)] =>
                        InLive(port) /\ devBrakeMode[Abs(port)] = m_brakeMode

\* setBrakeMode("HOLD") switched one coasting motor, the set-brake-mode
\* command of another connected motor failed and left it out
C11_Witness ==
    /\ op = "setBrakeMode" /\ m_brakeMode = "HOLD"
    /\ Len(m_motors) = 3 /\ Len(live) = 2
    /\ \E i \in 1..3 : LET p == Abs(m_motors[i].port)
                       IN  connected[p] /\ fault[p] = "brakeSet"
                           /\ devBrakeMode[p] = "COAST" /\ ~InLive(m_motors[i].port)

\* C12: setBrakeMode(mode) stores mode as the canonical brake mode and
\* returns 0 whatever the devices do; getBrakeMode returns the canonical mode
\* and leaves it alone, and no step other than setBrakeMode (or constructing
\* a new group) changes it: getBrakeMode returns the mode set last.
C12_Step ==
    /\ op' = "setBrakeMode" => ret' = 0 /\ m_brakeMode' = arg'
    /\ op' = "getBrakeMode" => retMode' = m_brakeMode
    /\ op' \notin {"setBrakeMode", "MotorGroup"} => m_brakeMode' = m_brakeMode

C13_AddedTakesFirstWorkingMode ==
    op = "addMotor" /\ ret = 0 =>
        LET working == {i \in 1..Len(m_motors) :
                           /\ Abs(m_motors[i].port) # Abs(arg)
                           /\ Motor_getBrakeMode(m_motors[i].port, devBrakeMode, fault) # INVALID}
        IN  working # {} =>
              LET first == CHOOSE i \in working : \A k \in working : i <= k
              IN  devBrakeMode[Abs(arg)] = devBrakeMode[Abs(m_motors[first].port)]

\* C17: isConnected returns 1 when at least one motor of the group is
\* connected and 0 when none is.
C17_AnyMotorConnected ==
    op = "isConnected" =>
        ret = IF \E i \in 1..Len(m_motors) : connected[Abs(m_motors[i].port)]
              THEN 1 ELSE 0

\* C18: the constructor makes one record per listed port, in list order,
\* each with connectedLastCycle true and offset 0, and addresses no motor:
\* no handle is made, nothing is configured or commanded, and the device
\* modes are the ones the motors were found in.
C18_ConstructedRecords ==
    op = "MotorGroup" =>
        /\ Len(m_motors) = Len(arg)
        /\ \A i \in 1..Len(arg) :
              m_motors[i] = [port |-> arg[i], connectedLastCycle |-> TRUE, offset |-> Zero]
        /\ touched = {} /\ configured = << >> /\ live = << >> /\ cmds = << >>
        /\ fault = NoFault

\* a group of three is constructed while one of its motors is unplugged and
\* another one is not in the brake mode of the group
C18_Witness ==
    /\ op = "MotorGroup" /\ arg = <<1, 2, -3>>
    /\ ~connected[2]
    /\ devBrakeMode[3] # m_brakeMode

\* C16: moveVelocity(v) issues to every live motor v times the gear ratio of
\* that motor (rated rpm of its cartridge over the output velocity of the
\* group), rounded to whole rpm.
C16_ScaledByGearRatio ==
    op = "moveVelocity" =>
        \A k \in 1..Len(cmds) :
            cmds[k].value = RoundDiv(arg * Cartridge[Abs(cmds[k].port)], 10 * OutputVelocity)

C21_SetThenGet ==
    /\ op = "Motor::setAngle" /\ ret = 0 =>
          /\ live[1].offset = RSub(arg, Position(cmds[1].ticks))
          /\ Motor_getAngle(live[1], NoFault) = arg
    /\ op = "Motor::getAngle" /\ fault = NoFault /\ cmds # << >> =>
          retAngle = RAdd(cmds[1].angle,
                          Position(RawPosition(live[1].port, NoFault) - cmds[1].ticks))

\* the reversed motor was set to 360 degrees, its shaft then turned three
\* ticks, and getAngle returned another angle than the one set
C21_Witness ==
    /\ op = "Motor::getAngle" /\ fault = NoFault
    /\ cmds # << >> /\ cmds[1].port = -3 /\ cmds[1].angle = RInt(360)
    /\ RawPosition(-3, NoFault) - cmds[1].ticks = 3
    /\ retAngle # RInt(360)

\* C22: a runtime-checked ReversibleSmartPort holds the given signed port
\* when its magnitude is in 1..21 and 0 otherwise; is_reversed is true
\* exactly for the negative stored ports; unary minus and set_reversed keep
\* the port number, and set_reversed(r).is_reversed() is r for a valid port.
C22_PortEncoding ==
    /\ op = "ReversibleSmartPort" => ret = (IF Abs(arg) \in 1..21 THEN arg ELSE 0)
    /\ op \in {"ReversibleSmartPort", "operator-", "set_reversed"} =>
          /\ ret \in -21..21
          /\ is_reversed(ret) <=> ret \in -21..-1
    /\ op = "operator-" => Abs(ret) = Abs(arg) /\ (arg # 0 => is_reversed(ret) # is_reversed(arg))
    /\ op = "set_reversed" =>
          /\ Abs(ret) = Abs(arg[1])
          /\ arg[1] # 0 => is_reversed(ret) = arg[2]

\* set_reversed(true) on the reversed port 21, made from -21
C22_Witness ==
    /\ op = "set_reversed"
    /\ arg = <<-21, TRUE>>
    /\ ret = -21

\* C23: after a poll every record whose motor was found disconnected has
\* connectedLastCycle false and no handle in the live set, every motor of
\* the live set has connectedLastCycle true, and a command of the group
\* still succeeds (getSize still counts the connected motors) when some
\* motors are disconnected and nothing else fails.
C23_DisconnectedAreSkipped ==
    op \in PollOps =>
        /\ \A i \in 1..Len(m_motors) :
              /\ ~connected[Abs(m_motors[i].port)] =>
                    ~m_motors[i].connectedLastCycle /\ ~InLive(m_motors[i].port)
              /\ InLive(m_motors[i].port) => m_motors[i].connectedLastCycle
        /\ \A j \in 1..Len(live) : \E i \in 1..Len(m_motors) : m_motors[i].port = live[j].port
        /\ fault = NoFault /\ (\E i \in 1..Len(m_motors) : connected[Abs(m_motors[i].port)]) =>
              /\ op \in CommandOps => ret = 0
              /\ op = "getSize" =>
                    ret = Cardinality({i \in 1..Len(m_motors) : connected[Abs(m_motors[i].port)]})

\* move on a group of three with one motor unplugged: two motors are live
\* and the call succeeds
C23_Witness ==
    /\ op = "move" /\ fault = NoFault /\ ret = 0
    /\ Len(m_motors) = 3 /\ Len(live) = 2
    /\ \E i \in 1..3 : ~connected[Abs(m_motors[i].port)] /\ ~m_motors[i].connectedLastCycle

\* C24: a poll runs the reconfiguration for every record whose motor is
\* connected and whose connectedLastCycle is false; when that reconfiguration
\* fails the motor is not in the live set of the poll and its record stays
\* in the group with connectedLastCycle false, so that the next poll that
\* finds the motor connected reconfigures it again.
C24_Step ==
    op = "idle" /\ op' \in PollOps =>
        \A i \in 1..Len(m_motors) :
            LET port == m_motors[i].port
            IN  connected[Abs(port)] /\ ~m_motors[i].connectedLastCycle =>
                  /\ \E k \in 1..Len(configured') : configured'[k] = port
                  /\ IsInf(configureMotor(port, m_motors, devBrakeMode, fault')) =>
                        /\ \A j \in 1..Len(live') : live'[j].port # port
                        /\ Len(m_motors') = Len(m_motors)
                        /\ m_motors'[i].port = port
                        /\ ~m_motors'[i].connectedLastCycle

C24_FailedReconfigurationIsRepeated == [][C24_Step]_vars

\* a poll reconfigured a reconnected motor, the reconfiguration failed, and
\* the record is still in the group, not live and not marked connected
C24_Witness ==
    /\ op \in PollOps /\ adds = 0
    /\ \E i \in 1..Len(m_motors) :
          /\ connected[Abs(m_motors[i].port)]
          /\ ~m_motors[i].connectedLastCycle
          /\ configured = <<m_motors[i].port>>
          /\ IsInf(configureMotor(m_motors[i].port, m_motors, devBrakeMode, fault))
          /\ ~InLive(m_motors[i].port)

\* C25: the reconfiguration runs once per join: while every motor stays
\* plugged in, a poll reconfigures no motor of the constructor list and no
\* motor that addMotor configured with success; only a motor whose
\* reconfiguration inside addMotor failed (its record holds the infinite
\* offset) is reconfigured by a poll.
C25_OncePerJoin ==
    op \in PollOps =>
        \A k \in 1..Len(configured) :
            \E i \in 1..Len(m_motors) :
                m_motors[i].port = configured[k] /\ m_motors[i].offset = Inf

C27_MeanOfOthers(last, port) ==
    LET others == {i \in 1..last : /\ Abs(m_motors[i].port) # Abs(port)
                                   /\ connected[Abs(m_motors[i].port)]
                                   /\ Reported(i, fault) # Inf}
    IN  IF others = {} THEN Zero
        ELSE RMean(others, [i \in others |-> Reported(i, fault)])

\* C27: the reference angle of a reconfiguration is the mean of the angles
\* reported by the other connected motors of the group, without the motor
\* being configured and without the motors that cannot be read, and zero
\* when no other motor reports an angle: this is the angle a motor added
\* with success reports, and the angle every reconfiguration of a poll
\* worked with.
C27_ReferenceIsMeanOfOthers ==
    /\ op = "addMotor" /\ ret = 0 =>
          Reported(Len(m_motors), fault) = C27_MeanOfOthers(Len(m_motors) - 1, arg)
    /\ op \in PollOps =>
          \A k \in 1..Len(configured) :
              ReferenceAngle(m_motors, configured[k], fault)
                  = C27_MeanOfOthers(Len(m_motors), configured[k])

\* a poll reconfigured one motor of a group of three; the other two are
\* connected and their mean is not the angle of the reconfigured motor
C27_Witness ==
    /\ op \in PollOps /\ fault = NoFault
    /\ Len(m_motors) = 3 /\ Len(live) = 3
    /\ \E i \in 1..3 :
          /\ configured = <<m_motors[i].port>>
          /\ ReferenceAngle(m_motors, m_motors[i].port, fault) # Reported(i, fault)
          /\ ReferenceAngle(m_motors, m_motors[i].port, fault) # Zero

\* C28: whenever getAngle divides, its divisor is the number of angles it
\* added to its sum, also when a motor is unplugged or plugged in between
\* the poll of getAngle and the poll of the nested getSize.
C28_DivisorIsSummedCount ==
    op = "getAngle" /\ arg > 0 => ret = arg

\* C29: every call of setCurrentLimit returns in the end, also when a motor
\* of the live set rejects every current-limit command.
C29_SetCurrentLimitReturns ==
    (op = "setCurrentLimit:attempt") ~> (op = "setCurrentLimit")

\* C30: configureMotor is built from per-motor calls only (no poll, no
\* operation of the group), so a poll reconfigures no record more than once
\* (no port is reconfigured more often than the records hold it, and never
\* more reconfigurations than iterations done), and every poll that has
\* begun ends, whatever the devices do meanwhile.
C30_Occurrences(ports, port) ==
    Cardinality({k \in 1..Len(ports) : ports[k] = port})

C30_OncePerRecord ==
    op \in {"getMotors:test", "getMotors:body", "getMotors"} =>
        /\ Len(configured) <= arg - 1
        /\ arg - 1 <= Len(m_motors)
        /\ \A k \in 1..Len(configured) :
              C30_Occurrences(configured, configured[k])
                  <= C30_Occurrences([i \in 1..Len(m_motors) |-> m_motors[i].port],
                                     configured[k])

C30_PollEnds ==
    /\ []C30_OncePerRecord
    /\ (op \in {"getMotors:test", "getMotors:body"}) ~> (op = "getMotors")

\* a poll of a group of three has ended after reconfiguring two of its
\* motors; the third was plugged in after its iteration
C30_Witness ==
    /\ op = "getMotors" /\ Len(m_motors) = 3 /\ fault = NoFault
    /\ Len(configured) = 2 /\ Len(live) >= 1
    /\ \E k \in 1..3 : ~m_motors[k].connectedLastCycle /\ connected[Abs(m_motors[k].port)]

\* C31: the scan at the start of addMotor (iterator while-loop) ends for
\* every content of the group: a call that has begun its scan returns.
C31_ScanEnds ==
    (op = "addMotor:scan") ~> (op = "addMotor")

\* C32: removeMotor(Motor motor) returns, and when it has returned the group
\* holds no record with the absolute port of the motor, as after
\* removeMotor(motor.getPort()).
C32_RemovesAsByPort ==
    /\ [](op = "removeMotor(Motor)" =>
             \A i \in 1..Len(m_motors) : Abs(m_motors[i].port) # Abs(arg))
    /\ (op = "removeMotor(Motor):call") ~> (op = "removeMotor(Motor)")

\* C33: move, moveVelocity, brake and setAngle issue their per-motor command
\* to every motor of the live set, in the order of the live set, whatever
\* the results of the commands issued before.
C33_EveryLiveMotorCommanded ==
    op \in CommandOps \cup {"setAngle"} =>
        /\ Len(cmds) = Len(live)
        /\ \A i \in 1..Len(live) : cmds[i].port = live[i].port

\* three live motors were commanded; the command to the first failed and
\* the commands to the second and third succeeded
C33_Witness ==
    /\ op \in CommandOps \cup {"setAngle"}
    /\ Len(live) = 3 /\ Len(cmds) = 3
    /\ cmds[1].result = INT_MAX /\ cmds[2].result = 0 /\ cmds[3].result = 0

\* C34: a group constructed from ports of distinct absolute values never
\* holds two records with the same absolute port, whatever addMotor,
\* removeMotor and the other operations were called.
C34_NoTwoRecordsShareAPort ==
    \A i, j \in 1..Len(m_motors) :
        Abs(m_motors[i].port) = Abs(m_motors[j].port) => i = j

\* addMotor was refused for a port the group holds with the other sign
C34_Witness ==
    /\ op = "addMotor" /\ ret = INT_MAX /\ errno = EEXIST
    /\ \E i \in 1..Len(m_motors) : m_motors[i].port = -arg

\* C35: a step that is not a return from addMotor or removeMotor leaves the
\* sequence of the records' ports as it was: no poll and no operation other
\* than these two adds, removes or reorders records or changes a port.
C35_PortsOf(recs) == [i \in 1..Len(recs) |-> recs[i].port]

C35_Step ==
    op' \notin {"addMotor", "removeMotor"} => C35_PortsOf(m_motors') = C35_PortsOf(m_motors)

C35_OnlyAddAndRemoveChangePorts == [][C35_Step]_vars

\* a poll of a group of three found two motors unplugged and reconfigured
\* the third: the records changed, the ports did not
C35_Witness ==
    /\ op \in PollOps /\ Len(m_motors) = 3
    /\ Len(configured) = 1
    /\ Cardinality({i \in 1..3 : ~m_motors[i].connectedLastCycle}) = 2

\* C36: reconnects are detected by polling.  A record that was marked
\* connected and whose motor is plugged in when a poll runs is not
\* reconfigured by that poll and stays marked, whatever happened to the plug
\* between the polls; and a record is marked not connected (which is what
\* makes the next poll reconfigure it) only by a poll that finds its motor
\* unplugged.
C36_SeenConnectedTwice ==
    op = "idle" /\ op' \in PollOps =>
        \A i \in 1..Len(m_motors) :
            m_motors[i].connectedLastCycle /\ connected[Abs(m_motors[i].port)] =>
                /\ \A k \in 1..Len(configured') : configured'[k] # m_motors[i].port
                /\ m_motors'[i].connectedLastCycle

C36_MarkedOnlyWhenSeenUnplugged ==
    \A i \in 1..Len(m_motors') :
        ~m_motors'[i].connectedLastCycle =>
            \/ \E j \in 1..Len(m_motors) :
                  /\ m_motors[j].port = m_motors'[i].port
                  /\ ~m_motors[j].connectedLastCycle
            \/ op' \in PollOps /\ ~connected[Abs(m_motors'[i].port)]

C36_ReconnectsAreDetectedByPolling ==
    [][C36_SeenConnectedTwice /\ C36_MarkedOnlyWhenSeenUnplugged]_vars

\* the first half alone
C36_MicroDisconnectIsNotSeen == [][C36_SeenConnectedTwice]_vars


\* C37: every cartridge value a group operation reads for a motor is the
\* cartridge fitted to that motor, also while another task's move is probing
\* the motor's type by switching its gearing to red and back.
C37_CartridgeReadIsFitted ==
    \A k \in 1..Len(cmds) :
        cmds[k].value # E_MOTOR_GEARSET_INVALID => cmds[k].value = Cartridge[Abs(cmds[k].port)]


\* C38: a call of V5InertialSensor::setRotation always returns: having taken
\* the sensor's mutex it calls getRotation, which takes the same mutex, and
\* the task does not wait forever for the lock it holds itself.
C38_SetRotationReturns == (op = "setRotation:getRotation") ~> (op = "setRotation")

=============================================================================
